---- MODULE Spec2Model ----
(***************************************************************************)
(* Economy / progression engine of Orb Pondering Simulator.                *)
(*                                                                         *)
(* Numbers.  Wisdom amounts (f32 / f64 in the source) are fixed-point      *)
(* integers in thousandths of a wisdom point (10.0 wisdom = 10000).        *)
(* Multipliers are integers in hundredths (1.75 = 175); a multiplication   *)
(* by a multiplier is Mul(v, f) = floor(v * f / 100), applied in the order *)
(* of the source expression.  Rates are thousandths per second.  One frame *)
(* lasts FrameMillis milliseconds of game time.                            *)
(*                                                                         *)
(* Scheduling.  A frame of the Bevy Update schedule is modelled as         *)
(* BeginFrame (state transition, input sampling, message buffer rotation)  *)
(* followed by one step per registered system, in any order: the source    *)
(* states no ordering between its systems (no chain / before / after).     *)
(***************************************************************************)
EXTENDS Integers, Sequences, FiniteSets, TLC

VARIABLES
    gs,              \* State<GameState>
    next_state,      \* NextState<GameState>: "none" or the pending state
    time,            \* frames begun since the process started (Time)
    frame,           \* inputs sampled for the current frame
    pending,         \* systems of the current frame that have not run yet
    changed,         \* change-detection flags, per observing system
    panel,           \* the spawned UI panel of the current game state
    truth_unread,    \* TruthGenerated messages not yet read, per reader
    last_wisdom,     \* Local<f32> of accumulate_run_wisdom
    wisdom,          \* WisdomMeter
    progress,        \* ArcaneProgress
    acolytes,        \* AcolyteState.count
    generators,      \* GeneratorState.owned
    synergies,       \* SynergyState
    tracker,         \* PurchaseTracker
    equipped,        \* EquippedOrb
    transcendence,   \* TranscendenceState
    school,          \* SchoolState
    achievements,    \* AchievementTracker
    shadows,         \* ShadowState (persisted fields)
    challenges,      \* ChallengeState
    resources,       \* SecondaryResources
    ponder,          \* PonderState
    moments,         \* MomentState.active_buff
    codex,           \* TruthCodex
    disk,            \* the save file: NoSave or the record of its keys
    now,             \* wall clock, seconds (now_secs)
    offline_report,  \* OfflineReport
    app,             \* "running" or "exited"
    launches,        \* number of times the process has been started
    loop,            \* the locals of a truth-resolution loop in progress
    last_truths,     \* Local<u32> of track_solitude_progress
    siphon_last,     \* Local<f32> last_wisdom of siphon_wisdom
    activations,     \* history: Deep Focus activations so far
    begun_at         \* history: truths_generated when the active challenge began

vars == <<gs, next_state, time, frame, pending, changed, panel, truth_unread,
          last_wisdom, wisdom, progress, acolytes, generators, synergies, tracker,
          equipped, transcendence, school, achievements, shadows, challenges,
          resources, ponder, moments, codex, disk, now, offline_report, app, launches,
          loop, last_truths, siphon_last, activations, begun_at>>

\* The resources of the game session (everything a system may read or write).
worldVars == <<wisdom, progress, acolytes, generators, synergies, tracker, equipped,
               transcendence, school, achievements, shadows, challenges, resources,
               ponder, moments, codex>>

\* The frame machinery.
frameVars == <<gs, next_state, time, frame, pending, changed, panel,
               truth_unread, last_wisdom>>

\* The process and its environment.
envVars ==
    <<disk, now, offline_report, app, launches, loop, last_truths, siphon_last,
      activations, begun_at>>

-----------------------------------------------------------------------------
(* Bounds of the model *)

\* Frames explored in one process run.
MaxFrames == 12

\* Frames explored in a run that started from a save file.
MaxLoadedFrames == 4

\* Orb clicks explored (resources.curiosity counts the clicks of a save's
\* lifetime; runs restored from the save files are past the bound).
MaxClicks == 10

\* Process starts explored (the first run plus relaunches).
MaxLaunches == 2

\* At most this many bonus sources differ from their default in an initial
\* state of SpecRates.
MaxActiveBonuses == 2

\* System runs explored from each initial state of SpecRates.
MaxRateSteps == 1

-----------------------------------------------------------------------------
(* Fixed-point arithmetic *)

Mul(v, f) == (v * f) \div 100

RECURSIVE Chain(_, _)
\* v multiplied by each factor of fs in turn.
Chain(v, fs) == IF fs = <<>> THEN v ELSE Chain(Mul(v, Head(fs)), Tail(fs))

Min(a, b) == IF a <= b THEN a ELSE b

Max(a, b) == IF a >= b THEN a ELSE b

\* ceil(n / d) for n >= 0, d > 0
CeilDiv(n, d) == (n + d - 1) \div d

\* Milliseconds of game time per frame (time.delta_secs() = 0.25).
FrameMillis == 1000 \div 4

\* rate (thousandths per second) * dt
PerFrame(rate) == (rate * FrameMillis) \div 1000

RECURSIVE SumOver(_, _)
SumOver(S, f) ==
    IF S = {} THEN 0
    ELSE LET x == CHOOSE y \in S : TRUE IN f[x] + SumOver(S \ {x}, f)

-----------------------------------------------------------------------------
(* Enumerations *)

GameState == {"Playing", "Paused", "LogbookOpen", "ShopOpen", "TranscendenceOpen",
              "SchoolSelection", "AchievementsOpen", "ChallengesOpen"}

OrbType == {"Crystal", "Obsidian", "Mercury", "Galaxy"}

ShopItemId == {"ArcaneBiscuit", "VoidTea", "CosmicPretzel", "GlowingBerries",
               "FocusedMind", "DeepContemplation", "ArcaneAmplifier",
               "CrystalResonance", "GentleScaling",
               "ObsidianOrb", "MercuryOrb", "GalaxyOrb"}

ShopCategory == {"Snacks", "Upgrades", "Generators", "OrbCollection"}

\* GeneratorType::ALL, in tier order
GeneratorALL == <<"Candle", "CrystalBall", "AncientTome", "LeyLineTap",
                  "AstralMirror", "DreamLoom", "VoidGate", "CosmicEye">>

GeneratorType == {GeneratorALL[i] : i \in 1..Len(GeneratorALL)}

EnlightenmentId == {"DeepRoots", "EternalFlow", "HeadStart", "CosmicResonance",
                    "ArcaneInheritance", "ClarityAffinity", "Transcendent",
                    "EfficientDesign"}

SchoolOfThought == {"None", "Stoicism", "Mysticism", "Empiricism", "Nihilism"}

\* The schools offered on the selection screen.
SchoolCHOICES == {"Stoicism", "Mysticism", "Empiricism", "Nihilism"}

ChallengeId == {"Silence", "Blindfold", "Austerity", "Solitude"}

AchievementId == {"FirstTruth", "TenTruths", "FiftyTruths", "HundredTruths",
                  "FiveHundredTruths", "ThousandTruths",
                  "HundredAfp", "ThousandAfp", "HundredKAfp", "MillionAfp",
                  "FirstTranscendence", "FiveTranscendences", "TenTranscendences",
                  "FirstGenerator", "AllGeneratorTypes", "FiftyCandles",
                  "HundredGenerators",
                  "FirstAcolyte", "TenAcolytes", "TwentyFiveAcolytes",
                  "SpeedPonderer", "DeepThinker", "TruthSeeker"}

-----------------------------------------------------------------------------
(* shop.rs: catalog and PurchaseTracker *)

ItemCost ==
    [i \in ShopItemId |->
        CASE i = "ArcaneBiscuit" -> 20
          [] i = "VoidTea" -> 50
          [] i = "CosmicPretzel" -> 100
          [] i = "GlowingBerries" -> 200
          [] i = "FocusedMind" -> 30
          [] i = "DeepContemplation" -> 75
          [] i = "ArcaneAmplifier" -> 40
          [] i = "CrystalResonance" -> 80
          [] i = "GentleScaling" -> 60
          [] i = "ObsidianOrb" -> 150
          [] i = "MercuryOrb" -> 300
          [] i = "GalaxyOrb" -> 500]

ItemCategory ==
    [i \in ShopItemId |->
        IF i \in {"ArcaneBiscuit", "VoidTea", "CosmicPretzel", "GlowingBerries"}
        THEN "Snacks"
        ELSE IF i \in {"ObsidianOrb", "MercuryOrb", "GalaxyOrb"}
        THEN "OrbCollection"
        ELSE "Upgrades"]

\* shop_item_to_orb_type; "NoOrb" is Option::None
shop_item_to_orb_type(i) ==
    CASE i = "ObsidianOrb" -> "Obsidian"
      [] i = "MercuryOrb" -> "Mercury"
      [] i = "GalaxyOrb" -> "Galaxy"
      [] OTHER -> "NoOrb"

\* efficiency_bonus added by an item, hundredths
ItemEfficiency(i) ==
    CASE i = "ArcaneBiscuit" -> 10
      [] i = "VoidTea" -> 25
      [] i = "CosmicPretzel" -> 50
      [] i = "GlowingBerries" -> 100
      [] OTHER -> 0

\* wisdom_speed_bonus added by an item, hundredths
ItemSpeed(i) ==
    CASE i = "FocusedMind" -> 20
      [] i = "DeepContemplation" -> 50
      [] OTHER -> 0

\* afp_bonus added by an item
ItemAfp(i) ==
    CASE i = "ArcaneAmplifier" -> 5
      [] i = "CrystalResonance" -> 10
      [] OTHER -> 0

\* PurchaseTracker::recalculate: every bonus is rebuilt from the purchased
\* set, then the equipped orb's bonus is applied.
recalculate(purchased, orb) ==
    LET eff == SumOver(purchased, [i \in ShopItemId |-> ItemEfficiency(i)])
        spd == 100 + SumOver(purchased, [i \in ShopItemId |-> ItemSpeed(i)])
        afp == SumOver(purchased, [i \in ShopItemId |-> ItemAfp(i)])
        scl == IF "GentleScaling" \in purchased THEN 107 ELSE 110
    IN [purchased |-> purchased,
        efficiency_bonus |-> eff + (IF orb = "Obsidian" THEN 30 ELSE 0),
        wisdom_speed_bonus |-> spd + (IF orb = "Mercury" THEN 40 ELSE 0),
        afp_bonus |-> afp + (IF orb = "Obsidian" THEN 5 ELSE 0),
        scaling_factor |-> scl - (IF orb = "Galaxy" THEN 3 ELSE 0)]

\* PurchaseTracker::default
DefaultTracker ==
    [purchased |-> {}, efficiency_bonus |-> 0, wisdom_speed_bonus |-> 100,
     afp_bonus |-> 0, scaling_factor |-> 110]

-----------------------------------------------------------------------------
(* generators.rs *)

GenIndex(g) == CHOOSE i \in 1..Len(GeneratorALL) : GeneratorALL[i] = g

\* base_cost: 50 * 10^tier
base_cost ==
    [g \in GeneratorType |->
        CASE g = "Candle" -> 50
          [] g = "CrystalBall" -> 500
          [] g = "AncientTome" -> 5000
          [] g = "LeyLineTap" -> 50000
          [] g = "AstralMirror" -> 500000
          [] g = "DreamLoom" -> 5000000
          [] g = "VoidGate" -> 50000000
          [] g = "CosmicEye" -> 500000000]

\* base_production, thousandths of wisdom per second
base_production ==
    [g \in GeneratorType |->
        CASE g = "Candle" -> 100
          [] g = "CrystalBall" -> 1000
          [] g = "AncientTome" -> 8000
          [] g = "LeyLineTap" -> 47000
          [] g = "AstralMirror" -> 260000
          [] g = "DreamLoom" -> 1400000
          [] g = "VoidGate" -> 7800000
          [] g = "CosmicEye" -> 44000000]

\* unlock_threshold: total truths needed before the tier is offered
unlock_threshold ==
    [g \in GeneratorType |->
        CASE g = "Candle" -> 0
          [] g = "CrystalBall" -> 3
          [] g = "AncientTome" -> 10
          [] g = "LeyLineTap" -> 25
          [] g = "AstralMirror" -> 50
          [] g = "DreamLoom" -> 100
          [] g = "VoidGate" -> 200
          [] g = "CosmicEye" -> 400]

RECURSIVE GCD(_, _)
GCD(a, b) == IF b = 0 THEN a ELSE GCD(b, a % b)

RECURSIVE GrowCost(_, _, _)
\* <<num, den>> with num / den = (num0 / den0) * 1.15^n, in lowest terms
\* (cost_growth = 1.15 = 23 / 20)
GrowCost(num, den, n) ==
    IF n = 0 THEN <<num, den>>
    ELSE LET a == num * 23
             b == den * 20
             g == GCD(a, b)
         IN GrowCost(a \div g, b \div g, n - 1)

\* A faulty next cost that rounds down.
next_cost_floored(g, owned, discount) ==
    LET d == GCD(100 - discount, 100)
        f == GrowCost(base_cost[g] * ((100 - discount) \div d), 100 \div d, owned)
    IN Max(1, f[1] \div f[2])

\* next_cost_discounted: ceil(base_cost * 1.15^owned * (1 - discount)), at
\* least 1; discount in hundredths.  Exact while the reduced numerator stays
\* below 2^31, which covers the owned counts the model reaches.
next_cost_discounted(g, owned, discount) ==
    LET d == GCD(100 - discount, 100)
        f == GrowCost(base_cost[g] * ((100 - discount) \div d), 100 \div d, owned)
    IN Max(1, CeilDiv(f[1], f[2]))

\* GeneratorState::default
DefaultGenerators == [g \in GeneratorType |-> 0]

\* GeneratorState::add
GeneratorAdd(owned, g) == [owned EXCEPT ![g] = @ + 1]

-----------------------------------------------------------------------------
(* synergies.rs *)

\* A faulty table whose skip-tier links run both ways.
SYNERGY_TABLE_TwoWay ==
    {<<GeneratorALL[i], GeneratorALL[i + 1], 2>> : i \in 1..7}
    \cup {<<GeneratorALL[i + 1], GeneratorALL[i], 2>> : i \in 1..7}
    \cup {<<"Candle", "AncientTome", 1>>, <<"CrystalBall", "AstralMirror", 1>>,
          <<"LeyLineTap", "VoidGate", 1>>, <<"DreamLoom", "CosmicEye", 1>>}
    \cup {<<"AncientTome", "Candle", 1>>, <<"AstralMirror", "CrystalBall", 1>>,
          <<"VoidGate", "LeyLineTap", 1>>, <<"CosmicEye", "DreamLoom", 1>>}

\* SYNERGY_TABLE: <<source, target, bonus_per_unit in hundredths>>.  Adjacent
\* tiers boost each other by 0.02 per unit, four skip links by 0.01.
SYNERGY_TABLE ==
    {<<GeneratorALL[i], GeneratorALL[i + 1], 2>> : i \in 1..7}
    \cup {<<GeneratorALL[i + 1], GeneratorALL[i], 2>> : i \in 1..7}
    \cup {<<"Candle", "AncientTome", 1>>, <<"CrystalBall", "AstralMirror", 1>>,
          <<"LeyLineTap", "VoidGate", 1>>, <<"DreamLoom", "CosmicEye", 1>>}

\* MILESTONES: <<owned count, production multiplier in hundredths>>
MILESTONES == <<<<5, 150>>, <<10, 200>>, <<25, 300>>, <<50, 500>>>>

\* A faulty milestone that stops at the first threshold reached.
milestone_multiplier_first(owned) ==
    IF owned >= MILESTONES[1][1] THEN MILESTONES[1][2] ELSE 100

RECURSIVE MilestoneLoop(_, _, _)
\* The for loop of milestone_multiplier from entry i on: mult is replaced by
\* each threshold reached, and the loop breaks at the first one not reached.
MilestoneLoop(i, mult, owned) ==
    IF i > Len(MILESTONES) THEN mult
    ELSE IF owned >= MILESTONES[i][1]
         THEN MilestoneLoop(i + 1, MILESTONES[i][2], owned)
         ELSE mult

\* milestone_multiplier
milestone_multiplier(owned) == MilestoneLoop(1, 100, owned)

\* SynergyState::default
DefaultSynergies ==
    [synergy_mult |-> [g \in GeneratorType |-> 100],
     milestone_mult |-> [g \in GeneratorType |-> 100]]

\* The body of recalculate_synergies after its change-detection guard.
SynergiesOf(owned) ==
    [synergy_mult |->
        [g \in GeneratorType |->
            100 + SumOver({l \in SYNERGY_TABLE : l[2] = g /\ owned[l[1]] > 0},
                          [l \in SYNERGY_TABLE |-> l[3] * owned[l[1]]])],
     milestone_mult |-> [g \in GeneratorType |-> milestone_multiplier(owned[g])]]

\* SynergyState::total_mult, hundredths
total_mult(syn, g) == Mul(syn.synergy_mult[g], syn.milestone_mult[g])

\* SynergyState::total_synergized_production, thousandths per second
total_synergized_production(syn, owned) ==
    SumOver(GeneratorType,
            [g \in GeneratorType |->
                Mul(Mul(base_production[g] * owned[g], syn.synergy_mult[g]),
                    syn.milestone_mult[g])])

-----------------------------------------------------------------------------
(* acolytes.rs *)

\* AcolyteState::next_cost: ceil(base_cost * cost_growth^count) = ceil(20 * 1.15^count)
AcolyteNextCost(count) ==
    LET f == GrowCost(20, 1, count) IN CeilDiv(f[1], f[2])

\* AcolyteState::passive_rate: count * base_rate (0.2 wisdom per second)
AcolytePassiveRate(count) == count * 200

-----------------------------------------------------------------------------
(* transcendence.rs *)

EnlightenmentCost ==
    [e \in EnlightenmentId |->
        CASE e = "DeepRoots" -> 1
          [] e = "EternalFlow" -> 2
          [] e = "HeadStart" -> 3
          [] e = "CosmicResonance" -> 5
          [] e = "ArcaneInheritance" -> 5
          [] e = "ClarityAffinity" -> 8
          [] e = "Transcendent" -> 15
          [] e = "EfficientDesign" -> 4]

\* TranscendenceState::default
DefaultTranscendence ==
    [insight |-> 0, total_transcendences |-> 0, purchased_enlightenments |-> {},
     run_wisdom_accumulated |-> 0]

RECURSIVE ISqrt(_, _)
\* the largest n >= k with n * n * 1000000 <= v, given k * k * 1000000 <= v
ISqrt(v, k) == IF (k + 1) * (k + 1) <= v \div 1000000 THEN ISqrt(v, k + 1) ELSE k

\* A faulty pending insight that rounds the square root to the nearest
\* integer.
pending_insight_nearest(t) ==
    LET n == ISqrt(t.run_wisdom_accumulated, 0)
    IN IF t.run_wisdom_accumulated >= (n * n + n) * 1000000 + 250000
       THEN n + 1 ELSE n

\* pending_insight: floor(sqrt(run_wisdom_accumulated / 1000)); the argument
\* is in thousandths of a wisdom point
pending_insight(t) == ISqrt(t.run_wisdom_accumulated, 0)

\* TranscendenceState::click_multiplier, hundredths
TranscendenceClickMultiplier(t) ==
    100 + (IF "DeepRoots" \in t.purchased_enlightenments THEN 10 ELSE 0)
        + (IF "Transcendent" \in t.purchased_enlightenments THEN 100 ELSE 0)

\* TranscendenceState::passive_multiplier, hundredths
TranscendencePassiveMultiplier(t) ==
    100 + (IF "EternalFlow" \in t.purchased_enlightenments THEN 25 ELSE 0)
        + (IF "CosmicResonance" \in t.purchased_enlightenments THEN 50 ELSE 0)
        + (IF "Transcendent" \in t.purchased_enlightenments THEN 100 ELSE 0)

\* A faulty starting_afp: the HeadStart grant is forgotten.
starting_afp_NoHeadStart(t) ==
    IF "ArcaneInheritance" \in t.purchased_enlightenments THEN 200 ELSE 0

\* TranscendenceState::starting_afp
starting_afp(t) ==
    (IF "HeadStart" \in t.purchased_enlightenments THEN 50 ELSE 0)
    + (IF "ArcaneInheritance" \in t.purchased_enlightenments THEN 200 ELSE 0)

\* TranscendenceState::generator_cost_discount, hundredths
generator_cost_discount(t) ==
    IF "EfficientDesign" \in t.purchased_enlightenments THEN 10 ELSE 0

-----------------------------------------------------------------------------
(* schools.rs *)

\* SchoolState::default
DefaultSchool == [active |-> "None", run_truths |-> 0]

\* SchoolState::click_multiplier, hundredths
SchoolClickMultiplier(sc) == IF sc.active = "Empiricism" THEN 175 ELSE 100

\* SchoolState::passive_multiplier, hundredths
SchoolPassiveMultiplier(sc) ==
    CASE sc.active = "Stoicism" -> 150
      [] sc.active = "Nihilism" -> 50 + 5 * sc.run_truths
      [] OTHER -> 100

\* A faulty scaling_override: Stoicism's override is forgotten.
scaling_override_None(sc) == 0

\* SchoolState::scaling_override; 0 is Option::None
scaling_override(sc) == IF sc.active = "Stoicism" THEN 107 ELSE 0

-----------------------------------------------------------------------------
(* challenges.rs *)

\* Option<ActiveChallenge>::None
NoChallenge == [id |-> "None", elapsed |-> 0, failed |-> FALSE, progress |-> 0]

\* ChallengeState::default
DefaultChallenges == [completed |-> {}, active |-> NoChallenge]

\* ChallengeState::is_active
is_active(ch) == ch.active.id # "None"

\* ChallengeState::passive_multiplier, hundredths
ChallengePassiveMultiplier(ch) ==
    100 + (IF "Silence" \in ch.completed THEN 5 ELSE 0)
        + (IF "Blindfold" \in ch.completed THEN 10 ELSE 0)

\* ChallengeState::click_multiplier, hundredths
ChallengeClickMultiplier(ch) ==
    100 + (IF "Austerity" \in ch.completed THEN 8 ELSE 0)

\* ChallengeState::active_scaling_override; 0 is Option::None
active_scaling_override(ch) ==
    IF ch.active.id = "Austerity" /\ ~ch.active.failed THEN 120 ELSE 0

-----------------------------------------------------------------------------
(* achievements.rs *)

\* AchievementId::reward_multiplier, hundredths
reward_multiplier ==
    [a \in AchievementId |->
        CASE a \in {"FirstTruth", "HundredAfp", "FirstGenerator", "FirstAcolyte"} -> 1
          [] a \in {"TenTruths", "ThousandAfp"} -> 2
          [] a \in {"FiftyTruths", "FiftyCandles", "TenAcolytes"} -> 3
          [] a = "DeepThinker" -> 4
          [] a \in {"HundredTruths", "HundredKAfp", "FirstTranscendence",
                    "HundredGenerators", "TwentyFiveAcolytes", "SpeedPonderer"} -> 5
          [] a = "TruthSeeker" -> 6
          [] a \in {"FiveHundredTruths", "FiveTranscendences"} -> 8
          [] a \in {"MillionAfp", "AllGeneratorTypes"} -> 10
          [] a \in {"ThousandTruths", "TenTranscendences"} -> 12]

\* AchievementTracker::default
DefaultAchievements ==
    [unlocked |-> {}, lifetime_truths |-> 0, peak_afp |-> 0, deep_focus_uses |-> 0,
     run_elapsed |-> 0, run_truths |-> 0]

\* AchievementTracker::wisdom_multiplier, hundredths
AchievementWisdomMultiplier(ach) == 100 + SumOver(ach.unlocked, reward_multiplier)

\* AchievementTracker::reset_run_stats
reset_run_stats(ach) ==
    [ach EXCEPT !.peak_afp = 0, !.deep_focus_uses = 0, !.run_elapsed = 0,
                !.run_truths = 0]

-----------------------------------------------------------------------------
(* resources.rs, moments.rs, pondering.rs, progression.rs, codex.rs,
   shadow_thoughts.rs: resource defaults and multipliers *)

\* SecondaryResources::default (serenity and focus in thousandths, curiosity
\* in whole clicks)
DefaultResources ==
    [serenity |-> 0, curiosity |-> 0, focus |-> 0, focus_active |-> FALSE]

\* SecondaryResources::focus_mult, hundredths (focus_multiplier = 1.5)
focus_mult(r) == IF r.focus_active THEN 150 ELSE 100

MomentEffect == {"WisdomBurst", "WisdomMultiplier", "AfpBonus", "ClickFrenzy"}

\* MomentState::default: no active buff
DefaultMoments == [active_buff |-> "None"]

\* MomentState::wisdom_multiplier, hundredths
MomentWisdomMultiplier(m) == IF m.active_buff = "WisdomMultiplier" THEN 200 ELSE 100

\* MomentState::click_multiplier, hundredths
MomentClickMultiplier(m) == IF m.active_buff = "ClickFrenzy" THEN 300 ELSE 100

\* PonderState::default
DefaultPonder ==
    [deep_focus_active |-> FALSE, deep_focus_timer |-> 0, deep_focus_cooldown |-> 0,
     ponder_intensity |-> 0]

\* ArcaneProgress::default
DefaultProgress ==
    [focus_points |-> 0, total_truths |-> 0, unlocked_orbs |-> <<"Crystal">>]

\* TruthCodex::default
DefaultCodex == [discovered |-> {}, completed_categories |-> {}]

\* ShadowState::default (the persisted fields)
DefaultShadows == [count |-> 0, stored_wisdom |-> 0]

-----------------------------------------------------------------------------
(* wisdom.rs *)

\* WisdomMeter at construction: 0 / 10 wisdom, no truths
DefaultWisdom == [current |-> 0, max_wisdom |-> 10000, truths_generated |-> 0]

\* Iteration cap of the truth-generation loop.
TruthIterationCap == 1000

\* The scaling factor of a truth-generation transition, hundredths: an active
\* challenge override wins over the school override, which wins over the
\* purchase tracker's scaling_factor.
ActiveScaling(ch, sc, tr) ==
    IF active_scaling_override(ch) # 0 THEN active_scaling_override(ch)
    ELSE IF scaling_override(sc) # 0 THEN scaling_override(sc)
    ELSE tr.scaling_factor

\* A faulty resolution that makes one transition and leaves the rest of the
\* overflow over the new threshold.
TruthLoop_Once(w, f, n) ==
    IF w.current >= w.max_wisdom /\ n > 0
    THEN [current |-> w.current - w.max_wisdom,
          max_wisdom |-> Mul(w.max_wisdom, f),
          truths_generated |-> w.truths_generated + 1]
    ELSE w

RECURSIVE TruthLoop(_, _, _)
\* check_truth_generation applied to meter w with scaling f: while current
\* has reached max_wisdom (and the cap allows), drain the threshold, count a
\* truth and raise the threshold.  n is the number of iterations left.
TruthLoop(w, f, n) ==
    IF w.current >= w.max_wisdom /\ n > 0
    THEN TruthLoop([current |-> w.current - w.max_wisdom,
                    max_wisdom |-> Mul(w.max_wisdom, f),
                    truths_generated |-> w.truths_generated + 1], f, n - 1)
    ELSE w

-----------------------------------------------------------------------------
(* persistence.rs *)

\* The live resources, as one record.
World ==
    [wisdom |-> wisdom, progress |-> progress, acolytes |-> acolytes,
     generators |-> generators, synergies |-> synergies, tracker |-> tracker,
     equipped |-> equipped, transcendence |-> transcendence, school |-> school,
     achievements |-> achievements, shadows |-> shadows, challenges |-> challenges,
     resources |-> resources, ponder |-> ponder, moments |-> moments,
     codex |-> codex]

\* The resources as the plugin constructs them (init_resource / Default).
DefaultWorld ==
    [wisdom |-> DefaultWisdom, progress |-> DefaultProgress, acolytes |-> 0,
     generators |-> DefaultGenerators, synergies |-> DefaultSynergies,
     tracker |-> DefaultTracker, equipped |-> "Crystal",
     transcendence |-> DefaultTranscendence, school |-> DefaultSchool,
     achievements |-> DefaultAchievements, shadows |-> DefaultShadows,
     challenges |-> DefaultChallenges, resources |-> DefaultResources,
     ponder |-> DefaultPonder, moments |-> DefaultMoments, codex |-> DefaultCodex]

\* SaveData::capture of world w at wall-clock time t
capture(w, t) ==
    [version |-> 1,
     timestamp |-> t,
     wisdom_current |-> w.wisdom.current,
     wisdom_max |-> w.wisdom.max_wisdom,
     truths_generated |-> w.wisdom.truths_generated,
     focus_points |-> w.progress.focus_points,
     total_truths |-> w.progress.total_truths,
     acolyte_count |-> w.acolytes,
     generators_owned |-> w.generators,
     purchased_items |-> w.tracker.purchased,
     equipped_orb |-> w.equipped,
     insight |-> w.transcendence.insight,
     total_transcendences |-> w.transcendence.total_transcendences,
     purchased_enlightenments |-> w.transcendence.purchased_enlightenments,
     run_wisdom_accumulated |-> w.transcendence.run_wisdom_accumulated,
     school |-> w.school.active,
     school_run_truths |-> w.school.run_truths,
     unlocked_achievements |-> w.achievements.unlocked,
     lifetime_truths |-> w.achievements.lifetime_truths,
     achievement_peak_afp |-> w.achievements.peak_afp,
     achievement_deep_focus_uses |-> w.achievements.deep_focus_uses,
     achievement_run_elapsed |-> w.achievements.run_elapsed,
     achievement_run_truths |-> w.achievements.run_truths,
     shadow_count |-> w.shadows.count,
     shadow_stored_wisdom |-> w.shadows.stored_wisdom,
     completed_challenges |-> w.challenges.completed,
     serenity |-> w.resources.serenity,
     curiosity |-> w.resources.curiosity,
     focus |-> w.resources.focus]

\* load_from_disk returning None (no file, unreadable or unparsable) is the
\* record NoSave, told apart by version 0.
NoSave == [capture(DefaultWorld, 0) EXCEPT !.version = 0]

\* The keys of the SaveData object that serde_json writes.
SaveFields == DOMAIN NoSave

\* The fields of SaveData marked #[serde(default)].
OptionalFields ==
    {"shadow_count", "shadow_stored_wisdom", "completed_challenges", "serenity",
     "curiosity", "focus"}

\* Default::default() of a #[serde(default)] field: an empty Vec for
\* completed_challenges, zero for the numbers.
FieldDefault(k) == IF k = "completed_challenges" THEN {} ELSE 0

\* A faulty parser that treats every field as required.
load_from_disk_Strict(file) ==
    IF SaveFields \subseteq DOMAIN file THEN file ELSE NoSave

\* load_from_disk on the file's JSON object, a record whose domain is the set
\* of keys the file holds: a key without #[serde(default)] that is missing
\* is a parse error (None); a missing #[serde(default)] key takes its default.
load_from_disk(file) ==
    IF (SaveFields \ OptionalFields) \subseteq DOMAIN file
    THEN [k \in SaveFields |-> IF k \in DOMAIN file THEN file[k] ELSE FieldDefault(k)]
    ELSE NoSave

\* A faulty restore that sets the base state and leaves the derived caches
\* as it found them.
restore_StaleCaches(save, w) ==
    [w EXCEPT
        !.wisdom = [current |-> save.wisdom_current,
                    max_wisdom |-> save.wisdom_max,
                    truths_generated |-> save.truths_generated],
        !.progress = [@ EXCEPT !.focus_points = save.focus_points,
                               !.total_truths = save.total_truths],
        !.acolytes = save.acolyte_count,
        !.generators = save.generators_owned,
        !.tracker = [@ EXCEPT !.purchased = save.purchased_items],
        !.equipped = save.equipped_orb,
        !.transcendence =
            [insight |-> save.insight,
             total_transcendences |-> save.total_transcendences,
             purchased_enlightenments |-> save.purchased_enlightenments,
             run_wisdom_accumulated |-> save.run_wisdom_accumulated],
        !.school = [active |-> save.school, run_truths |-> save.school_run_truths],
        !.achievements =
            [unlocked |-> save.unlocked_achievements,
             lifetime_truths |-> save.lifetime_truths,
             peak_afp |-> save.achievement_peak_afp,
             deep_focus_uses |-> save.achievement_deep_focus_uses,
             run_elapsed |-> save.achievement_run_elapsed,
             run_truths |-> save.achievement_run_truths],
        !.shadows = [count |-> save.shadow_count,
                     stored_wisdom |-> save.shadow_stored_wisdom],
        !.challenges = [completed |-> save.completed_challenges,
                        active |-> NoChallenge],
        !.resources = [@ EXCEPT !.serenity = save.serenity,
                                !.curiosity = save.curiosity,
                                !.focus = save.focus]]

\* SaveData::restore into the live world w
restore(save, w) ==
    [w EXCEPT
        !.wisdom = [current |-> save.wisdom_current,
                    max_wisdom |-> save.wisdom_max,
                    truths_generated |-> save.truths_generated],
        !.progress = [@ EXCEPT !.focus_points = save.focus_points,
                               !.total_truths = save.total_truths],
        !.acolytes = save.acolyte_count,
        !.generators = save.generators_owned,
        !.tracker = recalculate(save.purchased_items, save.equipped_orb),
        !.equipped = save.equipped_orb,
        !.transcendence =
            [insight |-> save.insight,
             total_transcendences |-> save.total_transcendences,
             purchased_enlightenments |-> save.purchased_enlightenments,
             run_wisdom_accumulated |-> save.run_wisdom_accumulated],
        !.school = [active |-> save.school, run_truths |-> save.school_run_truths],
        !.achievements =
            [unlocked |-> save.unlocked_achievements,
             lifetime_truths |-> save.lifetime_truths,
             peak_afp |-> save.achievement_peak_afp,
             deep_focus_uses |-> save.achievement_deep_focus_uses,
             run_elapsed |-> save.achievement_run_elapsed,
             run_truths |-> save.achievement_run_truths],
        !.shadows = [count |-> save.shadow_count,
                     stored_wisdom |-> save.shadow_stored_wisdom],
        !.challenges = [completed |-> save.completed_challenges,
                        active |-> NoChallenge],
        !.resources = [@ EXCEPT !.serenity = save.serenity,
                                !.curiosity = save.curiosity,
                                !.focus = save.focus],
        !.synergies = SynergiesOf(save.generators_owned)]

\* MAX_OFFLINE_SECS = 12 * 60 * 60
MAX_OFFLINE_SECS == 12 * 60 * 60

\* Minimum time away, in seconds, below which no gains are computed.
MIN_OFFLINE_SECS == 60

\* Option<OfflineGains>::None
NoGains ==
    [some |-> FALSE, wisdom_gained |-> 0, truths_earned |-> 0, afp_earned |-> 0,
     elapsed_secs |-> 0]

\* No truth-resolution loop is running.
NoLoop == [pc |-> "idle", acc |-> 0, max |-> 0, truths |-> 0, remaining |-> 0]

\* The safety cap of the offline simulation: the loop breaks once truths
\* exceeds it.
OfflineTruthCap == 1000

RECURSIVE OfflineLoop(_, _, _, _)
\* The while loop of calculate_offline_gains: <<wisdom_acc, truths>>
OfflineLoop(remaining, acc, max, truths) ==
    IF remaining <= 0 THEN <<acc, truths>>
    ELSE LET needed == max - acc IN
         IF needed <= 0 \/ remaining < needed
         THEN <<acc + remaining, truths>>
         ELSE IF truths + 1 > OfflineTruthCap
              THEN <<0, truths + 1>>
              ELSE OfflineLoop(remaining - needed, 0, Mul(max, 110), truths + 1)

\* A faulty calculate_offline_gains: the time away is not capped.
calculate_offline_gains_Uncapped(save, t) ==
    IF t <= save.timestamp THEN NoGains
    ELSE LET raw_elapsed == t - save.timestamp IN
    IF raw_elapsed < MIN_OFFLINE_SECS THEN NoGains
    ELSE LET elapsed == raw_elapsed
             gen_base == SumOver(GeneratorType,
                            [g \in GeneratorType |->
                                base_production[g] * save.generators_owned[g]])
             acolyte_rate == save.acolyte_count * 200
             total_passive == gen_base + acolyte_rate
         IN
    IF total_passive <= 0 THEN NoGains
    ELSE LET wisdom_per_sec == total_passive \div 2
             total_wisdom == wisdom_per_sec * elapsed
             r == OfflineLoop(total_wisdom, save.wisdom_current, save.wisdom_max, 0)
         IN [some |-> TRUE,
             wisdom_gained |-> r[1] - save.wisdom_current,
             truths_earned |-> r[2],
             afp_earned |-> r[2] * 10,
             elapsed_secs |-> Min(raw_elapsed, MAX_OFFLINE_SECS)]

\* calculate_offline_gains(save) with now_secs() = t
calculate_offline_gains(save, t) ==
    IF t <= save.timestamp THEN NoGains
    ELSE LET raw_elapsed == t - save.timestamp IN
    IF raw_elapsed < MIN_OFFLINE_SECS THEN NoGains
    ELSE LET elapsed == Min(raw_elapsed, MAX_OFFLINE_SECS)
             gen_base == SumOver(GeneratorType,
                            [g \in GeneratorType |->
                                base_production[g] * save.generators_owned[g]])
             acolyte_rate == save.acolyte_count * 200
             total_passive == gen_base + acolyte_rate
         IN
    IF total_passive <= 0 THEN NoGains
    ELSE LET wisdom_per_sec == total_passive \div 2
             total_wisdom == wisdom_per_sec * elapsed
             r == OfflineLoop(total_wisdom, save.wisdom_current, save.wisdom_max, 0)
         IN [some |-> TRUE,
             wisdom_gained |-> r[1] - save.wisdom_current,
             truths_earned |-> r[2],
             afp_earned |-> r[2] * 10,
             elapsed_secs |-> Min(raw_elapsed, MAX_OFFLINE_SECS)]

RECURSIVE ScaleTimes(_, _, _)
\* max_wisdom *= scaling, n times
ScaleTimes(max, f, n) == IF n = 0 THEN max ELSE ScaleTimes(Mul(max, f), f, n - 1)

\* load_game with load_from_disk() = d and now_secs() = t, run on world w:
\* the resulting world and OfflineReport
load_game(d, t, w) ==
    IF d.version = 0 THEN [world |-> w, report |-> NoGains]
    ELSE LET g == calculate_offline_gains(d, t)
             r == restore(d, w)
             scaling == IF scaling_override(r.school) # 0
                        THEN scaling_override(r.school)
                        ELSE r.tracker.scaling_factor
         IN IF ~g.some THEN [world |-> r, report |-> g]
            ELSE [world |->
                    [r EXCEPT
                        !.wisdom =
                            [current |-> @.current + g.wisdom_gained,
                             max_wisdom |-> ScaleTimes(@.max_wisdom, scaling,
                                                       g.truths_earned),
                             truths_generated |-> @.truths_generated + g.truths_earned],
                        !.progress =
                            [@ EXCEPT !.total_truths = @ + g.truths_earned,
                                      !.focus_points = @ + g.afp_earned],
                        !.achievements =
                            [@ EXCEPT !.lifetime_truths = @ + g.truths_earned,
                                      !.run_truths = @ + g.truths_earned]],
                  report |-> g]

\* The action counterpart: every resource takes its value from record w.
SetWorld(w) ==
    /\ wisdom' = w.wisdom
    /\ progress' = w.progress
    /\ acolytes' = w.acolytes
    /\ generators' = w.generators
    /\ synergies' = w.synergies
    /\ tracker' = w.tracker
    /\ equipped' = w.equipped
    /\ transcendence' = w.transcendence
    /\ school' = w.school
    /\ achievements' = w.achievements
    /\ shadows' = w.shadows
    /\ challenges' = w.challenges
    /\ resources' = w.resources
    /\ ponder' = w.ponder
    /\ moments' = w.moments
    /\ codex' = w.codex

\* The resources have the values of record w.
WorldIs(w) ==
    /\ wisdom = w.wisdom
    /\ progress = w.progress
    /\ acolytes = w.acolytes
    /\ generators = w.generators
    /\ synergies = w.synergies
    /\ tracker = w.tracker
    /\ equipped = w.equipped
    /\ transcendence = w.transcendence
    /\ school = w.school
    /\ achievements = w.achievements
    /\ shadows = w.shadows
    /\ challenges = w.challenges
    /\ resources = w.resources
    /\ ponder = w.ponder
    /\ moments = w.moments
    /\ codex = w.codex

-----------------------------------------------------------------------------
(* Frames: inputs, state transitions, scheduling (mod.rs, state.rs) *)

\* Inputs explored.  One key press at most per frame.
Keys == {"None", "KeyA", "KeyB", "KeyT"}

\* Shop tabs the player clicks.
TabChoices == {"Generators"}

\* Generator purchase buttons the player clicks.
GeneratorChoices == {"Candle", "CrystalBall"}

\* Enlightenment purchase buttons the player clicks.
EnlightenmentChoices == {"ArcaneInheritance"}

\* School cards the player clicks.
SchoolChoices == {"Stoicism", "Nihilism"}

Click(kind, arg) == [kind |-> kind, arg |-> arg]

NoClick == Click("none", "")

NoInput == [mouse |-> NoClick, key |-> "None"]

\* No panel is spawned.
NoPanel ==
    [selected |-> "None", listed |-> "None",
     shown_mult |-> [g \in GeneratorType |-> 0], transcend_button |-> FALSE]

\* The generator rows spawn_generator_items shows: the synergy multiplier it
\* reads from the cache for every unlocked tier (0: the tier has no row).
GeneratorRows(syn, prog) ==
    [g \in GeneratorType |->
        IF prog.total_truths < unlock_threshold[g] THEN 0 ELSE total_mult(syn, g)]

\* spawn_items for category c
ListedPanel(p, c, syn, prog) ==
    [p EXCEPT !.listed = c,
              !.shown_mult = IF c = "Generators" THEN GeneratorRows(syn, prog)
                             ELSE [g \in GeneratorType |-> 0]]

\* The panel after the OnExit systems of state a and the OnEnter systems of
\* state b (open_shop / close_shop, open_transcendence_ui / close_...).
PanelOnEnter(b) ==
    CASE b = "ShopOpen" ->
            ListedPanel([NoPanel EXCEPT !.selected = "Snacks"], "Snacks",
                        synergies, progress)
      [] b = "TranscendenceOpen" ->
            [NoPanel EXCEPT !.transcend_button = (pending_insight(transcendence) > 0)]
      [] OTHER -> NoPanel

\* What the mouse can press in state st with panel p.
MouseTargets(st, p) ==
    {NoClick} \cup
    CASE st = "Playing" ->
            IF resources.curiosity < MaxClicks THEN {Click("orb", "")} ELSE {}
      [] st = "ShopOpen" ->
            {Click("tab", c) : c \in TabChoices}
            \cup {Click("buygen", g) :
                    g \in {x \in GeneratorChoices : p.shown_mult[x] > 0}}
      [] st = "TranscendenceOpen" ->
            (IF p.transcend_button THEN {Click("transcend", "")} ELSE {})
            \cup {Click("enl", e) : e \in EnlightenmentChoices}
      [] st = "SchoolSelection" -> {Click("school", c) : c \in SchoolChoices}
      [] OTHER -> {}

\* The keys some system reacts to in state st.
KeysIn(st) ==
    CASE st = "Playing" -> Keys
      [] st = "ShopOpen" -> {"None", "KeyB"}
      [] st = "TranscendenceOpen" -> {"None", "KeyT"}
      [] OTHER -> {"None"}

\* The systems that produce wisdom in a Playing frame with input f.
Producers(f) ==
    (IF f.mouse.kind = "orb" THEN {"handle_click_ponder"} ELSE {})
    \cup (IF acolytes > 0 \/ f.key = "KeyA" THEN {"passive_wisdom"} ELSE {})
    \cup (IF \E g \in GeneratorType : generators[g] > 0
          THEN {"passive_generator_wisdom"} ELSE {})

\* The systems of the Update schedule that run in state st with input f and
\* can have an effect.  A system whose guard is already decided false by the
\* input, or by state that no system of the frame changes, is left out: its
\* run is a no-op in every order.
Scheduled(st, f, unread, chg) ==
    (IF f.key = "KeyB" THEN {"toggle_shop"} ELSE {})
    \cup (IF f.key = "KeyT" THEN {"toggle_transcendence"} ELSE {})
    \cup
    CASE st = "Playing" ->
            Producers(f)
            \cup (IF f.key = "KeyA" THEN {"summon_acolyte"} ELSE {})
            \cup (IF chg.recalculate_synergies THEN {"recalculate_synergies"} ELSE {})
            \cup (IF Producers(f) # {} \/ wisdom.current >= wisdom.max_wisdom
                  THEN {"check_truth_generation", "award_points",
                        "accumulate_run_wisdom"}
                  ELSE {})
            \cup (IF unread > 0 THEN {"award_points"} ELSE {})
            \cup (IF wisdom.current # last_wisdom
                  THEN {"accumulate_run_wisdom"} ELSE {})
      [] st = "ShopOpen" ->
            (IF f.mouse.kind = "tab" THEN {"handle_category_click"} ELSE {})
            \cup (IF f.mouse.kind = "buygen" THEN {"handle_buy_generator"} ELSE {})
            \cup (IF chg.rebuild_item_list \/ f.mouse.kind \in {"tab", "buygen"}
                  THEN {"rebuild_item_list"} ELSE {})
      [] st = "TranscendenceOpen" ->
            (IF f.mouse.kind = "transcend" THEN {"handle_transcend_click"} ELSE {})
            \cup (IF f.mouse.kind = "enl" THEN {"handle_enlightenment_buy"} ELSE {})
      [] st = "SchoolSelection" ->
            (IF f.mouse.kind = "school" THEN {"handle_school_choice"} ELSE {})
      [] OTHER -> {}

\* Frames a run may take: a run restored from a save file is explored for
\* MaxLoadedFrames, a fresh run for MaxFrames.
FrameLimit == IF disk.version = 0 THEN MaxFrames ELSE MaxLoadedFrames

\* A frame begins once every system of the previous one has run: the message
\* buffers rotate (a message lives for the frame it was written in and the
\* next one), input is sampled, the pending state transition is applied with
\* its OnExit / OnEnter systems, and the Update systems are scheduled.
BeginFrame ==
    /\ app = "running"
    /\ pending = {}
    /\ time < FrameLimit
    /\ time' = time + 1
    /\ LET st == IF next_state = "none" THEN gs ELSE next_state
           pn == IF st = gs THEN panel ELSE PanelOnEnter(st)
           chg == IF st # gs /\ st = "ShopOpen"
                  THEN [changed EXCEPT !.rebuild_item_list = TRUE]
                  ELSE changed
           unread == truth_unread.new
       IN /\ gs' = st
          /\ next_state' = "none"
          /\ panel' = pn
          /\ changed' = chg
          /\ truth_unread' = [old |-> unread, new |-> 0]
          /\ \E m \in MouseTargets(st, pn), k \in KeysIn(st) :
                /\ frame' = [mouse |-> m, key |-> k]
                /\ pending' = Scheduled(st, frame', unread, chg)
    /\ UNCHANGED <<last_wisdom, worldVars, envVars>>

\* System s runs now.
Run(s) ==
    /\ s \in pending
    /\ pending' = pending \ {s}
    /\ UNCHANGED <<gs, time, frame, envVars>>

-----------------------------------------------------------------------------
(* Wisdom production: pondering.rs, acolytes.rs, generators.rs *)

\* A faulty click gain: twice the product.
ClickGainDoubled ==
    2 * Chain(1000,
              <<100 + tracker.efficiency_bonus,
                tracker.wisdom_speed_bonus,
                IF ponder.deep_focus_active THEN 300 ELSE 100,
                MomentClickMultiplier(moments),
                TranscendenceClickMultiplier(transcendence),
                SchoolClickMultiplier(school),
                AchievementWisdomMultiplier(achievements),
                ChallengeClickMultiplier(challenges),
                focus_mult(resources)>>)

\* A faulty click gain: the school's click multiplier is left out.
ClickGainNoSchool ==
    Chain(1000,
          <<100 + tracker.efficiency_bonus,
            tracker.wisdom_speed_bonus,
            IF ponder.deep_focus_active THEN 300 ELSE 100,
            MomentClickMultiplier(moments),
            TranscendenceClickMultiplier(transcendence),
            AchievementWisdomMultiplier(achievements),
            ChallengeClickMultiplier(challenges),
            focus_mult(resources)>>)

\* handle_click_ponder: the gain of one click, thousandths
ClickGain ==
    Chain(1000,
          <<100 + tracker.efficiency_bonus,
            tracker.wisdom_speed_bonus,
            IF ponder.deep_focus_active THEN 300 ELSE 100,
            MomentClickMultiplier(moments),
            TranscendenceClickMultiplier(transcendence),
            SchoolClickMultiplier(school),
            AchievementWisdomMultiplier(achievements),
            ChallengeClickMultiplier(challenges),
            focus_mult(resources)>>)

\* handle_click_ponder, past its early returns (left button just pressed, no
\* UI button pressed)
ClickPonder ==
    /\ wisdom' = [wisdom EXCEPT !.current = @ + ClickGain]
    /\ ponder' = [ponder EXCEPT !.ponder_intensity = 100]
    /\ resources' = [resources EXCEPT !.curiosity = @ + 1]
    /\ UNCHANGED <<progress, acolytes, generators, synergies, tracker, equipped,
                   transcendence, school, achievements, shadows, challenges,
                   moments, codex>>

\* passive_wisdom: the acolytes' rate, thousandths per second
AcolyteRate ==
    Chain(AcolytePassiveRate(acolytes),
          <<100 + tracker.efficiency_bonus,
            tracker.wisdom_speed_bonus,
            MomentWisdomMultiplier(moments),
            TranscendencePassiveMultiplier(transcendence),
            SchoolPassiveMultiplier(school),
            AchievementWisdomMultiplier(achievements),
            ChallengePassiveMultiplier(challenges),
            focus_mult(resources)>>)

\* passive_wisdom
PassiveWisdom ==
    /\ wisdom' = IF acolytes = 0 THEN wisdom
                 ELSE [wisdom EXCEPT !.current = @ + PerFrame(AcolyteRate)]
    /\ UNCHANGED <<progress, acolytes, generators, synergies, tracker, equipped,
                   transcendence, school, achievements, shadows, challenges,
                   resources, ponder, moments, codex>>

\* passive_generator_wisdom: the generators' rate, thousandths per second,
\* from the cached multipliers
GeneratorRate ==
    Chain(total_synergized_production(synergies, generators),
          <<100 + tracker.efficiency_bonus,
            tracker.wisdom_speed_bonus,
            MomentWisdomMultiplier(moments),
            TranscendencePassiveMultiplier(transcendence),
            SchoolPassiveMultiplier(school)>>)

\* passive_generator_wisdom
PassiveGeneratorWisdom ==
    /\ wisdom' = IF total_synergized_production(synergies, generators) <= 0
                 THEN wisdom
                 ELSE [wisdom EXCEPT !.current = @ + PerFrame(GeneratorRate)]
    /\ UNCHANGED <<progress, acolytes, generators, synergies, tracker, equipped,
                   transcendence, school, achievements, shadows, challenges,
                   resources, ponder, moments, codex>>

\* check_truth_generation: the meter after the resolution step
TruthResolved ==
    TruthLoop(wisdom, ActiveScaling(challenges, school, tracker), TruthIterationCap)

\* The fields of truth_unread that count the messages written in the current
\* frame, one per MessageReader: award_points (old, new) and
\* track_achievement_stats (stats_old, stats_new).
NewMessages == {"new", "stats_new"}

\* check_truth_generation: resolves the meter and writes one TruthGenerated
\* message per transition, which every reader has yet to read
CheckTruthGeneration ==
    /\ wisdom' = TruthResolved
    /\ truth_unread' =
          [r \in DOMAIN truth_unread |->
              IF r \in NewMessages
              THEN truth_unread[r]
                   + (TruthResolved.truths_generated - wisdom.truths_generated)
              ELSE truth_unread[r]]
    /\ UNCHANGED <<progress, acolytes, generators, synergies, tracker, equipped,
                   transcendence, school, achievements, shadows, challenges,
                   resources, ponder, moments, codex>>

-----------------------------------------------------------------------------
(* The systems of the Playing state *)

handle_click_ponder ==
    /\ Run("handle_click_ponder")
    /\ ClickPonder
    /\ UNCHANGED <<next_state, changed, panel, truth_unread, last_wisdom>>

passive_wisdom ==
    /\ Run("passive_wisdom")
    /\ PassiveWisdom
    /\ UNCHANGED <<next_state, changed, panel, truth_unread, last_wisdom>>

passive_generator_wisdom ==
    /\ Run("passive_generator_wisdom")
    /\ PassiveGeneratorWisdom
    /\ UNCHANGED <<next_state, changed, panel, truth_unread, last_wisdom>>

check_truth_generation ==
    /\ Run("check_truth_generation")
    /\ CheckTruthGeneration
    /\ UNCHANGED <<next_state, changed, panel, last_wisdom>>

\* award_points: every unread TruthGenerated message pays 10 + afp_bonus
award_points ==
    /\ Run("award_points")
    /\ LET n == truth_unread.old + truth_unread.new
       IN progress' = [progress EXCEPT
                          !.focus_points = @ + n * (10 + tracker.afp_bonus),
                          !.total_truths = @ + n]
    /\ truth_unread' = [truth_unread EXCEPT !.old = 0, !.new = 0]
    /\ UNCHANGED <<next_state, changed, panel, last_wisdom, wisdom, acolytes,
                   generators, synergies, tracker, equipped, transcendence, school,
                   achievements, shadows, challenges, resources, ponder, moments,
                   codex>>

\* accumulate_run_wisdom: a drop of wisdom.current since the system's last
\* run credits the meter's max_wisdom as it is now
accumulate_run_wisdom ==
    /\ Run("accumulate_run_wisdom")
    /\ transcendence' =
          IF wisdom.current < last_wisdom
          THEN [transcendence EXCEPT !.run_wisdom_accumulated = @ + wisdom.max_wisdom]
          ELSE transcendence
    /\ last_wisdom' = wisdom.current
    /\ UNCHANGED <<next_state, changed, panel, truth_unread, wisdom, progress,
                   acolytes, generators, synergies, tracker, equipped, school,
                   achievements, shadows, challenges, resources, ponder, moments,
                   codex>>

\* The body of summon_acolyte under its just_pressed(KeyA) test
SummonAcolyte ==
    LET cost == AcolyteNextCost(acolytes)
    IN IF progress.focus_points >= cost
       THEN /\ progress' = [progress EXCEPT !.focus_points = @ - cost]
            /\ acolytes' = acolytes + 1
       ELSE UNCHANGED <<progress, acolytes>>

\* summon_acolyte (scheduled when KeyA was just pressed)
summon_acolyte ==
    /\ Run("summon_acolyte")
    /\ SummonAcolyte
    /\ UNCHANGED <<next_state, changed, panel, truth_unread, last_wisdom, wisdom,
                   generators, synergies, tracker, equipped, transcendence, school,
                   achievements, shadows, challenges, resources, ponder, moments,
                   codex>>

\* recalculate_synergies: returns unless GeneratorState changed since its
\* last run
recalculate_synergies ==
    /\ Run("recalculate_synergies")
    /\ synergies' = IF changed.recalculate_synergies THEN SynergiesOf(generators)
                    ELSE synergies
    /\ changed' = [changed EXCEPT !.recalculate_synergies = FALSE]
    /\ UNCHANGED <<next_state, panel, truth_unread, last_wisdom, wisdom, progress,
                   acolytes, generators, tracker, equipped, transcendence, school,
                   achievements, shadows, challenges, resources, ponder, moments,
                   codex>>

-----------------------------------------------------------------------------
(* Panel toggles (shop.rs, transcendence.rs) *)

\* toggle_shop (scheduled when KeyB was just pressed)
toggle_shop ==
    /\ Run("toggle_shop")
    /\ next_state' = CASE gs = "Playing" -> "ShopOpen"
                       [] gs = "ShopOpen" -> "Playing"
                       [] OTHER -> next_state
    /\ UNCHANGED <<changed, panel, truth_unread, last_wisdom, worldVars>>

\* toggle_transcendence (scheduled when KeyT was just pressed)
toggle_transcendence ==
    /\ Run("toggle_transcendence")
    /\ next_state' = CASE gs = "Playing" -> "TranscendenceOpen"
                       [] gs = "TranscendenceOpen" -> "Playing"
                       [] OTHER -> next_state
    /\ UNCHANGED <<changed, panel, truth_unread, last_wisdom, worldVars>>

-----------------------------------------------------------------------------
(* The systems of the ShopOpen state (shop.rs) *)

\* handle_category_click (scheduled when a tab was pressed)
handle_category_click ==
    /\ Run("handle_category_click")
    /\ IF panel.selected # frame.mouse.arg
       THEN /\ panel' = [panel EXCEPT !.selected = frame.mouse.arg]
            /\ changed' = [changed EXCEPT !.rebuild_item_list = TRUE]
       ELSE UNCHANGED <<panel, changed>>
    /\ UNCHANGED <<next_state, truth_unread, last_wisdom, worldVars>>

\* rebuild_item_list: returns unless the selected category, the equipped
\* orb, the tracker or GeneratorState changed since its last run; otherwise
\* respawns the list of the selected category
rebuild_item_list ==
    /\ Run("rebuild_item_list")
    /\ panel' = IF changed.rebuild_item_list
                THEN ListedPanel(panel, panel.selected, synergies, progress)
                ELSE panel
    /\ changed' = [changed EXCEPT !.rebuild_item_list = FALSE]
    /\ UNCHANGED <<next_state, truth_unread, last_wisdom, worldVars>>

\* The generator tiers that ask for serenity ("high-tier generators",
\* resources.rs): the three highest ones.
SerenityGated == {"DreamLoom", "VoidGate", "CosmicEye"}

\* GeneratorType::serenity_cost, thousandths; 0 is Option::None.  A gated
\* tier asks for 100 serenity.
serenity_cost(g) == IF g \in SerenityGated THEN 100 * 1000 ELSE 0

\* A faulty purchase that takes the serenity before it has looked at the
\* focus points.
BuyGeneratorSerenityFirst(g) ==
    LET cost == next_cost_discounted(g, generators[g],
                                     generator_cost_discount(transcendence))
    IN IF resources.serenity < serenity_cost(g)
       THEN UNCHANGED <<progress, generators, resources, changed>>
       ELSE /\ resources' = [resources EXCEPT !.serenity = @ - serenity_cost(g)]
            /\ IF progress.focus_points < cost
               THEN UNCHANGED <<progress, generators, changed>>
               ELSE /\ progress' = [progress EXCEPT !.focus_points = @ - cost]
                    /\ generators' = GeneratorAdd(generators, g)
                    /\ changed' = [recalculate_synergies |-> TRUE,
                                   rebuild_item_list |-> TRUE]

\* The body of handle_buy_generator for a pressed BuyGeneratorButton(g):
\* both balances are checked before either is touched.
BuyGenerator(g) ==
    LET cost == next_cost_discounted(g, generators[g],
                                     generator_cost_discount(transcendence))
    IN IF progress.focus_points < cost \/ resources.serenity < serenity_cost(g)
       THEN UNCHANGED <<progress, generators, resources, changed>>
       ELSE /\ resources' = [resources EXCEPT !.serenity = @ - serenity_cost(g)]
            /\ progress' = [progress EXCEPT !.focus_points = @ - cost]
            /\ generators' = GeneratorAdd(generators, g)
            /\ changed' = [recalculate_synergies |-> TRUE,
                           rebuild_item_list |-> TRUE]

\* handle_buy_generator (scheduled when a generator buy button was pressed)
handle_buy_generator ==
    /\ Run("handle_buy_generator")
    /\ BuyGenerator(frame.mouse.arg)
    /\ UNCHANGED <<next_state, panel, truth_unread, last_wisdom, wisdom, acolytes,
                   synergies, tracker, equipped, transcendence, school, achievements,
                   shadows, challenges, ponder, moments, codex>>

-----------------------------------------------------------------------------
(* The systems of the TranscendenceOpen state (transcendence.rs) *)

\* A faulty transcend that does not look at the insight gained.
TranscendClickUnguarded ==
    /\ transcendence' =
          [transcendence EXCEPT !.insight = @ + pending_insight(transcendence),
                                !.total_transcendences = @ + 1,
                                !.run_wisdom_accumulated = 0]
    /\ next_state' = "SchoolSelection"

\* The body of handle_transcend_click for a pressed TranscendButton
TranscendClick ==
    LET gained == pending_insight(transcendence)
    IN IF gained = 0
       THEN UNCHANGED <<transcendence, next_state>>
       ELSE /\ transcendence' =
                  [transcendence EXCEPT !.insight = @ + gained,
                                        !.total_transcendences = @ + 1,
                                        !.run_wisdom_accumulated = 0]
            /\ next_state' = "SchoolSelection"

\* handle_transcend_click (scheduled when the Transcend button was pressed)
handle_transcend_click ==
    /\ Run("handle_transcend_click")
    /\ TranscendClick
    /\ UNCHANGED <<changed, panel, truth_unread, last_wisdom, wisdom, progress,
                   acolytes, generators, synergies, tracker, equipped, school,
                   achievements, shadows, challenges, resources, ponder, moments,
                   codex>>

\* The body of handle_enlightenment_buy for a pressed
\* EnlightenmentBuyButton(e)
EnlightenmentBuy(e) ==
    transcendence' =
        IF e \in transcendence.purchased_enlightenments
           \/ transcendence.insight < EnlightenmentCost[e]
        THEN transcendence
        ELSE [transcendence EXCEPT
                 !.insight = @ - EnlightenmentCost[e],
                 !.purchased_enlightenments = @ \cup {e}]

\* handle_enlightenment_buy (scheduled when an enlightenment button was pressed)
handle_enlightenment_buy ==
    /\ Run("handle_enlightenment_buy")
    /\ EnlightenmentBuy(frame.mouse.arg)
    /\ UNCHANGED <<next_state, changed, panel, truth_unread, last_wisdom, wisdom,
                   progress, acolytes, generators, synergies, tracker, equipped,
                   school, achievements, shadows, challenges, resources, ponder,
                   moments, codex>>

-----------------------------------------------------------------------------
(* The system of the SchoolSelection state (schools.rs) *)

\* handle_school_choice (scheduled when a school card was pressed): commits
\* the school and performs the run-scope reset, then returns to Playing.
\* Permanent state (insight, total_transcendences, purchased_enlightenments,
\* the achievement, codex and challenge unlock sets, total_truths, the
\* unlocked and equipped orb) is not touched.
handle_school_choice ==
    /\ Run("handle_school_choice")
    /\ school' = [active |-> frame.mouse.arg, run_truths |-> 0]
    /\ progress' = [progress EXCEPT !.focus_points = starting_afp(transcendence)]
    /\ generators' = DefaultGenerators
    /\ tracker' = recalculate({}, equipped)
    /\ acolytes' = 0
    /\ wisdom' = [wisdom EXCEPT !.current = DefaultWisdom.current,
                                !.max_wisdom = DefaultWisdom.max_wisdom]
    /\ achievements' = reset_run_stats(achievements)
    /\ changed' = [recalculate_synergies |-> TRUE, rebuild_item_list |-> TRUE]
    /\ next_state' = "Playing"
    /\ UNCHANGED <<panel, truth_unread, last_wisdom, synergies, equipped,
                   transcendence, shadows, challenges, resources, ponder, moments,
                   codex>>

-----------------------------------------------------------------------------
(* Startup and the save files the runs start from *)

RECURSIVE RunWisdomAfter(_, _, _)
\* run_wisdom_accumulated after n truths of a run that started at threshold
\* max with scaling f
RunWisdomAfter(max, f, n) ==
    IF n = 0 THEN 0 ELSE Mul(max, f) + RunWisdomAfter(Mul(max, f), f, n - 1)

\* Wall-clock second at which the explored process starts.
StartClock == 100000

\* A first-run save: 36 truths (360 focus points earned), four candles and
\* the Arcane Biscuit bought (272 spent), the meter 0.1 wisdom short of its
\* threshold, saved 30 seconds before the start.
SaveFirstRun ==
    [capture(DefaultWorld, StartClock - 30) EXCEPT
        !.wisdom_max = ScaleTimes(10000, 110, 36),
        !.wisdom_current = ScaleTimes(10000, 110, 36) - 100,
        !.truths_generated = 36,
        !.total_truths = 36,
        !.focus_points = 88,
        !.generators_owned = [DefaultGenerators EXCEPT !["Candle"] = 4],
        !.purchased_items = {"ArcaneBiscuit"},
        !.run_wisdom_accumulated = RunWisdomAfter(10000, 110, 36),
        !.school_run_truths = 36,
        !.unlocked_achievements = {"FirstTruth", "TenTruths", "HundredAfp",
                                   "FirstGenerator", "FirstAcolyte"},
        !.lifetime_truths = 36,
        !.achievement_peak_afp = 120,
        !.achievement_run_truths = 36,
        !.curiosity = 150]

\* A second-run save: one transcendence behind, Head Start bought, 5 insight
\* left, Stoicism chosen, 30 truths into the run, one acolyte.
SaveSecondRun ==
    [capture(DefaultWorld, StartClock - 30) EXCEPT
        !.wisdom_max = ScaleTimes(10000, 107, 30),
        !.wisdom_current = 1000,
        !.truths_generated = 68,
        !.total_truths = 68,
        !.focus_points = 40,
        !.acolyte_count = 1,
        !.insight = 5,
        !.total_transcendences = 1,
        !.purchased_enlightenments = {"HeadStart"},
        !.run_wisdom_accumulated = RunWisdomAfter(10000, 107, 30),
        !.school = "Stoicism",
        !.school_run_truths = 30,
        !.unlocked_achievements = {"FirstTruth", "TenTruths", "FiftyTruths",
                                   "HundredAfp", "FirstGenerator", "FirstAcolyte",
                                   "FirstTranscendence"},
        !.lifetime_truths = 68,
        !.achievement_peak_afp = 90,
        !.achievement_run_truths = 30,
        !.completed_challenges = {"Silence"},
        !.curiosity = 400]

SaveFiles == {NoSave, SaveFirstRun, SaveSecondRun}

\* The process starts at wall-clock time t with save file d on disk: the
\* plugin constructs its resources, load_game runs (Startup), the game is in
\* the default state Playing, no system has run yet.
Startup(d, t) ==
    /\ WorldIs(load_game(d, t, DefaultWorld).world)
    /\ offline_report = load_game(d, t, DefaultWorld).report
    /\ gs = "Playing"
    /\ next_state = "none"
    /\ time = 0
    /\ frame = NoInput
    /\ pending = {}
    /\ changed = [recalculate_synergies |-> TRUE, rebuild_item_list |-> TRUE]
    /\ panel = NoPanel
    /\ truth_unread = [old |-> 0, new |-> 0]
    /\ last_wisdom = 0
    /\ disk = d
    /\ now = t
    /\ app = "running"

Init ==
    /\ launches = 1
    /\ last_truths = 0
    /\ siphon_last = 0
    /\ activations = 0
    /\ begun_at = 0
    /\ loop = NoLoop
    /\ \E d \in SaveFiles : Startup(d, StartClock)

Next ==
    \/ BeginFrame
    \/ handle_click_ponder
    \/ passive_wisdom
    \/ passive_generator_wisdom
    \/ check_truth_generation
    \/ award_points
    \/ accumulate_run_wisdom
    \/ summon_acolyte
    \/ recalculate_synergies
    \/ toggle_shop
    \/ toggle_transcendence
    \/ handle_category_click
    \/ rebuild_item_list
    \/ handle_buy_generator
    \/ handle_transcend_click
    \/ handle_enlightenment_buy
    \/ handle_school_choice

Spec == Init /\ [][Next]_vars

-----------------------------------------------------------------------------
(* Step predicates used by the properties *)

\* The step is a run of system s.
Ran(s) == s \in pending /\ s \notin pending'

\* The step ends a frame and begins the next one.
FrameEnds == pending = {} /\ time' = time + 1

\* No bonus source is active and nothing but clicks produces wisdom.
NoBonuses ==
    /\ tracker = DefaultTracker
    /\ ~ponder.deep_focus_active
    /\ moments.active_buff = "None"
    /\ transcendence.purchased_enlightenments = {}
    /\ school.active = "None"
    /\ achievements.unlocked = {}
    /\ challenges = DefaultChallenges
    /\ ~resources.focus_active
    /\ acolytes = 0
    /\ generators = DefaultGenerators

-----------------------------------------------------------------------------
(* C1 *)

\* C1, scenario: in a run started without a save file (meter 0/10, no
\* generators, no bonuses), once 10 clicks have been made and the meter is
\* resolved (current below the threshold), exactly one truth has been
\* generated, current is 0 and max_wisdom is 11.
C1_TenClicks ==
    (disk.version = 0 /\ NoBonuses /\ resources.curiosity = 10
        /\ wisdom.current < wisdom.max_wisdom)
    => wisdom = [current |-> 0, max_wisdom |-> 11000, truths_generated |-> 1]

\* C1, one transition: a resolution step taken with current = max_wisdom + X,
\* 0 <= X < max_wisdom * scaling, counts exactly one truth, leaves current = X
\* and multiplies max_wisdom by the scaling factor.
C1_OneTransition ==
    (/\ Ran("check_truth_generation")
     /\ wisdom.current >= wisdom.max_wisdom
     /\ wisdom.current - wisdom.max_wisdom
            < Mul(wisdom.max_wisdom, ActiveScaling(challenges, school, tracker)))
    => wisdom' = [current |-> wisdom.current - wisdom.max_wisdom,
                  max_wisdom |-> Mul(wisdom.max_wisdom,
                                     ActiveScaling(challenges, school, tracker)),
                  truths_generated |-> wisdom.truths_generated + 1]

\* C1: truth generation is lossless on overflow -- a resolution step with
\* current = max_wisdom + X (0 <= X < max_wisdom * scaling) adds exactly one
\* truth, keeps X as the new current and scales max_wisdom; and 10 clicks of
\* 1.0 wisdom from 0/10 without bonuses give truths_generated = 1,
\* current = 0, max_wisdom = 11.
C1_LosslessOverflow == []C1_TenClicks /\ [][C1_OneTransition]_vars

\* C1 witness: a transition that carried an overshoot over -- the restored
\* first run (36 truths) has generated its 37th truth and kept X > 0.
C1_Witness ==
    /\ wisdom.truths_generated = 37
    /\ wisdom.current > 0
    /\ wisdom.current < 1000
    /\ wisdom.max_wisdom = ScaleTimes(10000, 110, 37)

-----------------------------------------------------------------------------
(* C7 *)

RECURSIVE PreTransitionSum(_)
\* The sum of the pre-transition thresholds of the first k truths of a run
\* with the default scaling: 10 + 11 + 12.1 + ...
PreTransitionSum(k) ==
    IF k = 0 THEN 0
    ELSE ScaleTimes(10000, 110, k - 1) + PreTransitionSum(k - 1)

\* C7: run_wisdom_accumulated grows by the pre-transition max_wisdom, once
\* per truth-generation transition -- in a first run started without a save
\* file and with the default scaling, it is the sum of the pre-transition
\* thresholds of the transitions credited so far (10 after the first truth).
C7_PreTransitionMax ==
    (/\ disk.version = 0
     /\ transcendence.total_transcendences = 0
     /\ ActiveScaling(challenges, school, tracker) = 110)
    => \E k \in 0..wisdom.truths_generated :
          transcendence.run_wisdom_accumulated = PreTransitionSum(k)

-----------------------------------------------------------------------------
(* C10 *)

\* The step reads the synergy cache: passive generator production, or the
\* shop respawning its generator list.
ReadsSynergyCache ==
    \/ Ran("passive_generator_wisdom")
    \/ /\ Ran("rebuild_item_list")
       /\ changed.rebuild_item_list
       /\ panel.selected = "Generators"

\* C10: the synergy cache is never read stale -- whenever a system reads
\* SynergyState, its multipliers equal the recompute from the current
\* generator counts.
C10_CacheNeverStale ==
    [][ReadsSynergyCache => synergies = SynergiesOf(generators)]_vars

-----------------------------------------------------------------------------
(* C2, C3 *)

\* C2: prestige reset scope -- the committed school choice that follows a
\* transcend leaves insight, total_transcendences, purchased_enlightenments
\* and the achievement, codex and challenge unlock sets unchanged, sets
\* focus_points to 50 for HeadStart plus 200 for ArcaneInheritance, and zeroes
\* every generator count, the acolyte count and wisdom.current.
C2_ResetScope ==
    [][Ran("handle_school_choice") =>
        /\ transcendence'.insight = transcendence.insight
        /\ transcendence'.total_transcendences = transcendence.total_transcendences
        /\ transcendence'.purchased_enlightenments
              = transcendence.purchased_enlightenments
        /\ achievements'.unlocked = achievements.unlocked
        /\ codex' = codex
        /\ challenges'.completed = challenges.completed
        /\ progress'.focus_points =
              (IF "HeadStart" \in transcendence.purchased_enlightenments
               THEN 50 ELSE 0)
              + (IF "ArcaneInheritance" \in transcendence.purchased_enlightenments
                 THEN 200 ELSE 0)
        /\ \A g \in GeneratorType : generators'[g] = 0
        /\ acolytes' = 0
        /\ wisdom'.current = 0]_vars

\* C2 witness: a school was just chosen after a transcend with both HeadStart
\* and ArcaneInheritance owned; the run starts over with 250 focus points.
C2_Witness ==
    /\ gs = "SchoolSelection"
    /\ next_state = "Playing"
    /\ school.active = "Nihilism"
    /\ transcendence.total_transcendences = 2
    /\ progress.focus_points = 250
    /\ acolytes = 0

\* The run-scoped fields of the prestige reset.
RunScoped ==
    <<progress.focus_points, generators, tracker.purchased, acolytes, wisdom>>

\* C3: prestige is a two-phase transaction -- a transcend action with
\* pending_insight > 0 banks the insight, counts the transcendence, zeroes
\* run_wisdom_accumulated and leaves the run-scoped fields alone; the frame
\* of the transcend action ends in SchoolSelection; and from the transcend
\* panel to the school choice no step but the committed school choice
\* changes the run-scoped fields.
C3_TwoPhase ==
    [][/\ (Ran("handle_transcend_click") /\ pending_insight(transcendence) > 0)
            => /\ transcendence'.insight
                    = transcendence.insight + pending_insight(transcendence)
               /\ transcendence'.total_transcendences
                    = transcendence.total_transcendences + 1
               /\ transcendence'.run_wisdom_accumulated = 0
               /\ UNCHANGED RunScoped
       /\ (FrameEnds /\ gs = "TranscendenceOpen" /\ frame.mouse.kind = "transcend")
            => gs' = "SchoolSelection"
       /\ (gs \in {"TranscendenceOpen", "SchoolSelection"}
              /\ ~Ran("handle_school_choice"))
            => UNCHANGED RunScoped]_vars

-----------------------------------------------------------------------------
(* SpecRates: the production systems and the truth-generation step applied
   to sessions with every combination of a few active bonus sources *)

\* The bonus sources a session can have.
BonusSources ==
    {<<"item", i>> : i \in {x \in ShopItemId : ItemCategory[x] # "OrbCollection"}}
    \cup {<<"orb", o>> : o \in OrbType \ {"Crystal"}}
    \cup {<<"deep_focus", "">>, <<"focus", "">>}
    \cup {<<"moment", m>> : m \in {"WisdomMultiplier", "ClickFrenzy"}}
    \cup {<<"enlightenment", e>> :
            e \in {"DeepRoots", "EternalFlow", "CosmicResonance", "Transcendent"}}
    \cup {<<"school", c>> : c \in SchoolCHOICES}
    \cup {<<"achievement", a>> : a \in {"FirstTruth", "TenTruths"}}
    \cup {<<"completed", c>> : c \in {"Silence", "Blindfold", "Austerity"}}
    \cup {<<"active", c>> : c \in {"Austerity", "Silence"}}

RECURSIVE SubsetsUpTo(_, _)
\* The subsets of S with at most k elements.
SubsetsUpTo(S, k) ==
    IF k = 0 THEN {{}}
    ELSE LET T == SubsetsUpTo(S, k - 1) IN T \cup {t \cup {x} : t \in T, x \in S}

\* The values of kind k in B.
Of(B, k) == {b[2] : b \in {x \in B : x[1] = k}}

\* One equipped orb, one buff, one school and one active challenge at most.
Compatible(B) ==
    \A k \in {"orb", "moment", "school", "active"} : Cardinality(Of(B, k)) <= 1

\* The only value of kind k in B, or d.
OneOf(B, k, d) == IF Of(B, k) = {} THEN d ELSE CHOOSE v \in Of(B, k) : TRUE

\* The shop item that unlocks orb o.
OrbItem(o) == CHOOSE i \in ShopItemId : shop_item_to_orb_type(i) = o

\* A session with one acolyte and two candles (0.2 wisdom per second each
\* way), meter m / 10, and the bonus sources B.
RateWorld(B, m) ==
    LET orb == OneOf(B, "orb", "Crystal")
        items == Of(B, "item") \cup (IF orb = "Crystal" THEN {} ELSE {OrbItem(orb)})
        owned == [DefaultGenerators EXCEPT !["Candle"] = 2]
    IN [DefaultWorld EXCEPT
          !.wisdom = [@ EXCEPT !.current = m],
          !.acolytes = 1,
          !.generators = owned,
          !.synergies = SynergiesOf(owned),
          !.tracker = recalculate(items, orb),
          !.equipped = orb,
          !.progress = [@ EXCEPT !.unlocked_orbs =
                            IF orb = "Crystal" THEN @ ELSE Append(@, orb)],
          !.ponder = IF <<"deep_focus", "">> \in B
                     THEN [@ EXCEPT !.deep_focus_active = TRUE,
                                    !.deep_focus_timer = 10000,
                                    !.deep_focus_cooldown = 60000]
                     ELSE @,
          !.resources = IF <<"focus", "">> \in B
                        THEN [@ EXCEPT !.focus_active = TRUE, !.focus = 50000]
                        ELSE @,
          !.moments = [active_buff |-> OneOf(B, "moment", "None")],
          !.transcendence =
              [@ EXCEPT !.purchased_enlightenments = Of(B, "enlightenment"),
                        !.total_transcendences =
                            IF Of(B, "enlightenment") \cup Of(B, "school") = {}
                            THEN 0 ELSE 1],
          !.school = [@ EXCEPT !.active = OneOf(B, "school", "None")],
          !.achievements = [@ EXCEPT !.unlocked = Of(B, "achievement")],
          !.challenges =
              [completed |-> Of(B, "completed"),
               active |-> [NoChallenge EXCEPT !.id = OneOf(B, "active", "None")]]]

\* Meter readings the sessions start from: empty, just over the threshold,
\* far over it.
RateMeters == {0, 10500, 24000}

InitRates ==
    /\ \E B \in {b \in SubsetsUpTo(BonusSources, MaxActiveBonuses) : Compatible(b)},
          m \in RateMeters :
            WorldIs(RateWorld(B, m))
    /\ gs = "Playing"
    /\ next_state = "none"
    /\ time = 0
    /\ frame = NoInput
    /\ pending = {}
    /\ changed = [recalculate_synergies |-> FALSE, rebuild_item_list |-> FALSE]
    /\ panel = NoPanel
    /\ truth_unread = [old |-> 0, new |-> 0]
    /\ last_wisdom = 0
    /\ disk = NoSave
    /\ now = StartClock
    /\ offline_report = NoGains
    /\ app = "running"
    /\ launches = 1
    /\ last_truths = 0
    /\ siphon_last = 0
    /\ activations = 0
    /\ begun_at = 0
    /\ loop = NoLoop

\* One more system run, outside the frame schedule.
RateStep ==
    /\ time < MaxRateSteps
    /\ time' = time + 1
    /\ UNCHANGED <<gs, next_state, frame, pending, changed, panel, last_wisdom,
                   envVars>>

\* handle_click_ponder on a click that reaches the orb
ClickStep == RateStep /\ ClickPonder /\ UNCHANGED truth_unread

\* passive_wisdom
AcolyteStep == RateStep /\ PassiveWisdom /\ UNCHANGED truth_unread

\* passive_generator_wisdom
GeneratorStep == RateStep /\ PassiveGeneratorWisdom /\ UNCHANGED truth_unread

\* check_truth_generation
TruthStep == RateStep /\ CheckTruthGeneration

NextRates == ClickStep \/ AcolyteStep \/ GeneratorStep \/ TruthStep

SpecRates == InitRates /\ [][NextRates]_vars

-----------------------------------------------------------------------------
(* C5 *)

\* The step is a click that reached the orb.
OrbClicked == resources'.curiosity = resources.curiosity + 1

C5_OneClick ==
    OrbClicked =>
        wisdom'.current - wisdom.current =
            Chain(1000,
                  <<100 + tracker.efficiency_bonus,
                    tracker.wisdom_speed_bonus,
                    IF ponder.deep_focus_active THEN 300 ELSE 100,
                    MomentClickMultiplier(moments),
                    TranscendenceClickMultiplier(transcendence),
                    SchoolClickMultiplier(school),
                    AchievementWisdomMultiplier(achievements),
                    ChallengeClickMultiplier(challenges),
                    focus_mult(resources)>>)

\* C5: every click that reaches the orb adds to wisdom.current exactly
\* 1 * (1 + efficiency_bonus) * wisdom_speed_bonus * deep_focus_mult * moment
\* click multiplier * enlightenment click multiplier * school click
\* multiplier * achievement multiplier * challenge click multiplier * focus
\* multiplier, each factor once.
C5_ClickFormula == [][C5_OneClick]_vars

\* One click under Empiricism with Deep Focus active: 1 * 3 * 1.75 = 5.25.
C5_Witness ==
    /\ resources.curiosity = 1
    /\ school.active = "Empiricism"
    /\ ponder.deep_focus_active
    /\ wisdom.current = 5250

-----------------------------------------------------------------------------
(* C6 *)

\* C6: the generator path and the acolyte path apply the same global
\* factors, so with equal base production (acolytes' passive rate = the
\* generators' synergized production) the two paths produce at the same rate.
C6_SameFactors ==
    AcolytePassiveRate(acolytes) = total_synergized_production(synergies, generators)
        => AcolyteRate = GeneratorRate

-----------------------------------------------------------------------------
(* C8 *)

\* The scaling factor the precedence rule selects, hundredths.
PrecedenceFactor ==
    IF challenges.active.id = "Austerity" /\ ~challenges.active.failed THEN 120
    ELSE IF school.active = "Stoicism" THEN 107
    ELSE tracker.scaling_factor

C8_Transition ==
    wisdom'.truths_generated > wisdom.truths_generated =>
        wisdom'.max_wisdom =
            ScaleTimes(wisdom.max_wisdom, PrecedenceFactor,
                       wisdom'.truths_generated - wisdom.truths_generated)

\* The default factor is 1.1 unless GentleScaling or the Galaxy orb lowers it.
C8_DefaultFactor ==
    /\ tracker.scaling_factor <= 110
    /\ ("GentleScaling" \notin tracker.purchased /\ equipped # "Galaxy")
          => tracker.scaling_factor = 110

\* C8: every truth-generation transition multiplies max_wisdom by one factor:
\* 1.2 while Austerity is active and not failed, otherwise 1.07 under
\* Stoicism, otherwise the purchase tracker's scaling factor (1.1 unless
\* lowered by a permanent upgrade or the equipped orb).
C8_ScalingPrecedence == []C8_DefaultFactor /\ [][C8_Transition]_vars

\* Austerity is active under Stoicism and one transition has raised the
\* threshold by 1.2, not by 1.07.
C8_Witness ==
    /\ challenges.active.id = "Austerity"
    /\ school.active = "Stoicism"
    /\ wisdom.truths_generated = 1
    /\ wisdom.max_wisdom = 12000

-----------------------------------------------------------------------------
(* SpecLoad: sessions that are saved on exit and loaded at the next launch *)

\* What a session may have when it is saved.
SessionFeatures ==
    {"candles", "acolytes", "obsidian", "stoicism", "meter", "challenge", "codex",
     "focus"}

\* Truths generated by the sessions that own producers.
PlayedTruths == 5 * 10

\* The session with the features F.  One that owns candles or acolytes has
\* played PlayedTruths truths to afford them.
LoadSession(F) ==
    LET owned == [DefaultGenerators EXCEPT
                     !["Candle"] = IF "candles" \in F THEN 1 ELSE 0]
        orb == IF "obsidian" \in F THEN "Obsidian" ELSE "Crystal"
        truths == IF {"candles", "acolytes"} \cap F = {} THEN 0 ELSE PlayedTruths
        scaling == IF "stoicism" \in F THEN 107 ELSE 110
    IN [DefaultWorld EXCEPT
          !.wisdom = [current |-> IF "meter" \in F THEN 9000 ELSE 0,
                      max_wisdom |-> ScaleTimes(10000, scaling, truths),
                      truths_generated |-> truths],
          !.acolytes = IF "acolytes" \in F THEN 1 ELSE 0,
          !.generators = owned,
          !.synergies = SynergiesOf(owned),
          !.tracker = recalculate(IF "obsidian" \in F THEN {OrbItem(orb)} ELSE {}, orb),
          !.equipped = orb,
          !.progress = [focus_points |-> 2 * truths,
                        total_truths |-> truths,
                        unlocked_orbs |->
                            IF "obsidian" \in F THEN <<"Crystal", orb>>
                            ELSE <<"Crystal">>],
          !.transcendence = [@ EXCEPT !.total_transcendences =
                                IF "stoicism" \in F THEN 1 ELSE 0],
          !.school = [active |-> IF "stoicism" \in F THEN "Stoicism" ELSE "None",
                      run_truths |-> truths],
          !.achievements = [@ EXCEPT !.lifetime_truths = truths,
                                     !.run_truths = truths],
          !.challenges = [@ EXCEPT !.active =
                             IF "challenge" \in F
                             THEN [NoChallenge EXCEPT !.id = "Austerity"]
                             ELSE NoChallenge],
          !.codex = [@ EXCEPT !.discovered = IF "codex" \in F THEN {1} ELSE {}],
          !.resources = IF "focus" \in F
                        THEN [@ EXCEPT !.focus_active = TRUE, !.focus = 50000]
                        ELSE @]

\* Seconds between an exit and the next launch.
AwayTimes ==
    {0, 30, MIN_OFFLINE_SECS - 1, MIN_OFFLINE_SECS, MIN_OFFLINE_SECS + 1, 3600,
     103 * 60, 205 * 60, MAX_OFFLINE_SECS, MAX_OFFLINE_SECS + 1,
     2 * MAX_OFFLINE_SECS}

InitLoad ==
    /\ \E F \in SUBSET SessionFeatures : WorldIs(LoadSession(F))
    /\ gs = "Playing"
    /\ next_state = "none"
    /\ time = 0
    /\ frame = NoInput
    /\ pending = {}
    /\ changed = [recalculate_synergies |-> TRUE, rebuild_item_list |-> TRUE]
    /\ panel = NoPanel
    /\ truth_unread = [old |-> 0, new |-> 0]
    /\ last_wisdom = 0
    /\ disk = NoSave
    /\ now = StartClock
    /\ offline_report = NoGains
    /\ app = "running"
    /\ launches = 1
    /\ last_truths = 0
    /\ siphon_last = 0
    /\ activations = 0
    /\ begun_at = 0
    /\ loop = NoLoop

\* save_on_exit: the application exits and the snapshot of the session is
\* written.  The session's variables keep their last values while the process
\* is gone.
save_on_exit ==
    /\ app = "running"
    /\ disk' = capture(World, now)
    /\ app' = "exited"
    /\ UNCHANGED <<frameVars, worldVars, now, offline_report, launches, loop,
                   last_truths, siphon_last, activations, begun_at>>

\* The next launch: the plugin constructs the default resources, the game
\* state is its default (Playing), every system's Local is zero, and
\* load_game runs at Startup, some time after the exit.
Launch ==
    /\ app = "exited"
    /\ launches < MaxLaunches
    /\ \E away \in AwayTimes :
          /\ now' = now + away
          /\ SetWorld(load_game(load_from_disk(disk), now + away,
                                DefaultWorld).world)
          /\ offline_report' = load_game(load_from_disk(disk), now + away,
                                         DefaultWorld).report
    /\ app' = "running"
    /\ launches' = launches + 1
    /\ gs' = "Playing"
    /\ next_state' = "none"
    /\ pending' = {}
    /\ panel' = NoPanel
    /\ truth_unread' = [r \in DOMAIN truth_unread |-> 0]
    /\ last_wisdom' = 0
    /\ last_truths' = 0
    /\ siphon_last' = 0
    /\ UNCHANGED <<time, frame, changed, disk, loop, activations, begun_at>>

NextLoad == save_on_exit \/ Launch

SpecLoad == InitLoad /\ [][NextLoad]_vars

-----------------------------------------------------------------------------
(* C4 *)

\* The fields of the data model: wisdom meter, generator counts,
\* ArcaneProgress, purchase tracker, transcendence state, achievement, codex
\* and challenge state, secondary resources.
DataModel ==
    <<wisdom, generators, progress, tracker, transcendence, achievements, codex,
      challenges, resources>>

\* C4: save/load round-trips -- a session that was captured on exit and is
\* restored at the next launch (before any offline gain is applied) has every
\* field of the data model equal to what it was when it was captured.
C4_RoundTrip ==
    [][(app = "exited" /\ app' = "running" /\ ~offline_report'.some)
          => DataModel' = DataModel]_vars

-----------------------------------------------------------------------------
(* C9 *)

\* The passive rate of the saved state, thousandths per second.
SavedPassive ==
    disk.acolyte_count * 200
    + SumOver(GeneratorType,
              [g \in GeneratorType |-> base_production[g] * disk.generators_owned[g]])

C9_Launch ==
    (app = "exited" /\ app' = "running") =>
        LET away == now' - disk.timestamp IN
        /\ SavedPassive = 0 => ~offline_report'.some
        /\ away < 60 => ~offline_report'.some
        /\ away > 12 * 60 * 60 =>
              offline_report' =
                  calculate_offline_gains(disk, disk.timestamp + 12 * 60 * 60)

\* C9: calculate_offline_gains returns no gains for a saved passive rate of
\* 0, no gains for less than 60 seconds away, and for more than 12 hours away
\* the same result as for exactly 12 hours.
C9_OfflineGains == [][C9_Launch]_vars

\* A launch more than 12 hours after the exit of a producing session, with
\* gains reported for 12 hours.
C9_Witness ==
    /\ launches = 2
    /\ now - disk.timestamp > MAX_OFFLINE_SECS
    /\ offline_report.some
    /\ offline_report.truths_earned > 0
    /\ offline_report.elapsed_secs = MAX_OFFLINE_SECS

-----------------------------------------------------------------------------
(* The purchase handlers, one press per step *)

\* A faulty purchase that does not look at the purchased set.
HandleBuyClickAgain(i) ==
    IF progress.focus_points < ItemCost[i]
    THEN UNCHANGED <<progress, tracker>>
    ELSE /\ progress' = [progress EXCEPT !.focus_points = @ - ItemCost[i]]
         /\ tracker' = recalculate(tracker.purchased \cup {i}, equipped)

\* The body of handle_buy_click for a pressed BuyButton(i): an owned item and
\* an item the focus points do not pay for are skipped; otherwise the cost
\* is taken, the item recorded, its orb unlocked and the bonuses recomputed.
HandleBuyClick(i) ==
    IF i \in tracker.purchased \/ progress.focus_points < ItemCost[i]
    THEN UNCHANGED <<progress, tracker>>
    ELSE LET orb == shop_item_to_orb_type(i)
             known == {progress.unlocked_orbs[k] :
                          k \in 1..Len(progress.unlocked_orbs)}
         IN /\ progress' =
                  [progress EXCEPT
                      !.focus_points = @ - ItemCost[i],
                      !.unlocked_orbs = IF orb = "NoOrb" \/ orb \in known
                                        THEN @ ELSE Append(@, orb)]
            /\ tracker' = recalculate(tracker.purchased \cup {i}, equipped)

\* A faulty equip that leaves the bonuses as they were.
HandleEquipClickStale(o) ==
    /\ equipped' = o
    /\ UNCHANGED tracker

\* The body of handle_equip_click for a pressed EquipButton(o)
HandleEquipClick(o) ==
    IF equipped = o
    THEN UNCHANGED <<equipped, tracker>>
    ELSE /\ equipped' = o
         /\ tracker' = recalculate(tracker.purchased, o)

\* spawn_items: the orbs with an Equip button are the Crystal orb and the
\* orbs whose shop item is owned.
EquipButtons(tr) ==
    {"Crystal"} \cup {shop_item_to_orb_type(i) :
                         i \in {j \in tr.purchased : ItemCategory[j] = "OrbCollection"}}

\* Presses per shop session.
MaxShopSteps == 3

\* Focus points a shop session starts with: none, one snack's worth, a few
\* items' worth, and enough for a high generator tier.
ShopPurses == {0, 45, 400, 6000000}

\* Insight and serenity (thousandths) a shop session starts with.
ShopInsights == {0, 4}

ShopSerenities == {0, 150000}

\* Generator tiers and enlightenments whose buttons the sessions press.
ShopGenerators == {"Candle", "DreamLoom"}

ShopEnlightenments == {"DeepRoots", "EfficientDesign"}

\* A session at the start of its second run, 100 truths into the game, with
\* the given balances.
ShopSession(afp, insight, serenity) ==
    [DefaultWorld EXCEPT
        !.progress = [@ EXCEPT !.focus_points = afp, !.total_truths = 100],
        !.transcendence = [@ EXCEPT !.insight = insight,
                                    !.total_transcendences = 1],
        !.resources = [@ EXCEPT !.serenity = serenity]]

InitShop ==
    /\ \E afp \in ShopPurses, insight \in ShopInsights, serenity \in ShopSerenities :
          WorldIs(ShopSession(afp, insight, serenity))
    /\ gs = "ShopOpen"
    /\ next_state = "none"
    /\ time = 0
    /\ frame = NoInput
    /\ pending = {}
    /\ changed = [recalculate_synergies |-> FALSE, rebuild_item_list |-> FALSE]
    /\ panel = NoPanel
    /\ truth_unread = [old |-> 0, new |-> 0]
    /\ last_wisdom = 0
    /\ disk = NoSave
    /\ now = StartClock
    /\ offline_report = NoGains
    /\ app = "running"
    /\ launches = 1
    /\ last_truths = 0
    /\ siphon_last = 0
    /\ activations = 0
    /\ begun_at = 0
    /\ loop = NoLoop

\* One more press, recorded in frame.
ShopStep(input) ==
    /\ time < MaxShopSteps
    /\ time' = time + 1
    /\ frame' = input
    /\ UNCHANGED <<gs, next_state, pending, panel, truth_unread, last_wisdom,
                   envVars>>

\* handle_buy_click on a press of the Buy button of item i (the button is
\* there for every item of the catalog, owned or not, affordable or not)
BuyItemStep ==
    \E i \in ShopItemId :
        /\ ShopStep([mouse |-> Click("buy", i), key |-> "None"])
        /\ HandleBuyClick(i)
        /\ UNCHANGED <<changed, wisdom, acolytes, generators, synergies, equipped,
                       transcendence, school, achievements, shadows, challenges,
                       resources, ponder, moments, codex>>

\* handle_equip_click on a press of one of the Equip buttons
EquipStep ==
    \E o \in EquipButtons(tracker) :
        /\ ShopStep([mouse |-> Click("equip", o), key |-> "None"])
        /\ HandleEquipClick(o)
        /\ UNCHANGED <<changed, wisdom, progress, acolytes, generators, synergies,
                       transcendence, school, achievements, shadows, challenges,
                       resources, ponder, moments, codex>>

\* handle_buy_generator on a press of the Buy button of tier g
BuyGeneratorStep ==
    \E g \in ShopGenerators :
        /\ ShopStep([mouse |-> Click("buy_generator", g), key |-> "None"])
        /\ BuyGenerator(g)
        /\ UNCHANGED <<wisdom, acolytes, synergies, tracker, equipped,
                       transcendence, school, achievements, shadows, challenges,
                       ponder, moments, codex>>

\* summon_acolyte on KeyA
SummonStep ==
    /\ ShopStep([mouse |-> NoClick, key |-> "KeyA"])
    /\ SummonAcolyte
    /\ UNCHANGED <<changed, wisdom, generators, synergies, tracker, equipped,
                   transcendence, school, achievements, shadows, challenges,
                   resources, ponder, moments, codex>>

\* handle_enlightenment_buy on a press of the button of enlightenment e
EnlightenmentStep ==
    \E e \in ShopEnlightenments :
        /\ ShopStep([mouse |-> Click("enlightenment", e), key |-> "None"])
        /\ EnlightenmentBuy(e)
        /\ UNCHANGED <<changed, wisdom, progress, acolytes, generators, synergies,
                       tracker, equipped, school, achievements, shadows,
                       challenges, resources, ponder, moments, codex>>

NextShop ==
    BuyItemStep \/ EquipStep \/ BuyGeneratorStep \/ SummonStep \/ EnlightenmentStep

SpecShop == InitShop /\ [][NextShop]_vars

-----------------------------------------------------------------------------
(* C11 *)

\* C11: after any sequence of shop purchases and orb equips, the tracker's
\* efficiency_bonus, wisdom_speed_bonus, afp_bonus and scaling_factor are the
\* values recomputed from scratch from the purchased set and the equipped
\* orb, already in the step of the purchase or equip; they depend on that
\* set and orb only, not on the order of the presses.
C11_FromScratch ==
    LET fresh == recalculate(tracker.purchased, equipped)
    IN /\ tracker.efficiency_bonus = fresh.efficiency_bonus
       /\ tracker.wisdom_speed_bonus = fresh.wisdom_speed_bonus
       /\ tracker.afp_bonus = fresh.afp_bonus
       /\ tracker.scaling_factor = fresh.scaling_factor

\* Gentle Scaling and the Galaxy orb bought, the Galaxy orb equipped last:
\* scaling 1.07 - 0.03.
C11_Witness ==
    /\ tracker.purchased = {"GentleScaling", "GalaxyOrb"}
    /\ equipped = "Galaxy"
    /\ frame.mouse = Click("equip", "Galaxy")
    /\ tracker.scaling_factor = 104

-----------------------------------------------------------------------------
(* C12 *)

\* The step is a launch that found a save file.
LaunchRestores == app = "exited" /\ app' = "running" /\ disk.version # 0

C12_Launch ==
    LaunchRestores =>
        /\ tracker'.purchased = disk.purchased_items
        /\ equipped' = disk.equipped_orb
        /\ generators' = disk.generators_owned
        /\ tracker' = recalculate(tracker'.purchased, equipped')
        /\ synergies' = SynergiesOf(generators')

\* C12: after SaveData::restore the derived caches are recomputed from the
\* restored base state: the tracker's aggregates are the from-scratch values
\* for the restored purchased set and equipped orb, and the synergy state is
\* the recompute over the restored generator counts.
C12_CachesRecomputed == [][C12_Launch]_vars

\* A relaunched session with the Obsidian orb and a candle: efficiency +0.3,
\* and the candle lends the Crystal Ball 0.02.
C12_Witness ==
    /\ launches = 2
    /\ app = "running"
    /\ equipped = "Obsidian"
    /\ generators["Candle"] = 1
    /\ tracker.efficiency_bonus = 30
    /\ synergies.synergy_mult["CrystalBall"] = 102

-----------------------------------------------------------------------------
(* The unlock lists.  AchievementTracker.unlocked, TruthCodex.
   completed_categories and ChallengeState.completed are Vecs; the sessions
   below keep them as sequences, with their order and any repetition. *)

\* The elements of list q.
Elements(q) == {q[k] : k \in 1..Len(q)}

\* A faulty unlock that appends without looking.
unlock_Unchecked(ach, id) ==
    [ach EXCEPT !.unlocked = Append(@, id),
                !.notification_queue = Append(@, id)]

\* AchievementTracker::unlock
unlock(ach, id) ==
    IF id \in Elements(ach.unlocked) THEN ach
    ELSE [ach EXCEPT !.unlocked = Append(@, id),
                     !.notification_queue = Append(@, id)]

\* AchievementTracker::wisdom_multiplier over the list, hundredths
ListWisdomMultiplier(ach) ==
    100 + SumOver(1..Len(ach.unlocked),
                  [k \in 1..Len(ach.unlocked) |-> reward_multiplier[ach.unlocked[k]]])

\* TruthCategory::index_range of the two categories the sessions touch
index_range ==
    [cat \in {"OriginalTruths", "TowerAndSanctum"} |->
        IF cat = "OriginalTruths" THEN <<0, 17>> ELSE <<232, 241>>]

\* TruthCategory::category_for_index
category_for_index(index) ==
    CHOOSE cat \in DOMAIN index_range :
        index >= index_range[cat][1] /\ index <= index_range[cat][2]

\* TruthCodex::is_category_complete
is_category_complete(cdx, cat) ==
    Cardinality({i \in cdx.discovered :
                    i >= index_range[cat][1] /\ i <= index_range[cat][2]})
        >= index_range[cat][2] - index_range[cat][1] + 1

\* TruthCodex::discover
discover(cdx, index) ==
    IF index \in cdx.discovered THEN cdx
    ELSE LET found == [cdx EXCEPT !.discovered = @ \cup {index}]
             cat == category_for_index(index)
         IN IF cat \notin Elements(found.completed_categories)
               /\ is_category_complete(found, cat)
            THEN [found EXCEPT !.completed_categories = Append(@, cat),
                               !.notification_queue = Append(@, cat)]
            ELSE found

\* TruthCodex::wisdom_multiplier, hundredths: 0.05 per completed category
CodexWisdomMultiplier(cdx) == 100 + 5 * Len(cdx.completed_categories)

\* The completion of the active challenge id in update_challenges and
\* track_solitude_progress
complete(ch, id) ==
    [active |-> NoChallenge,
     completed |-> IF id \in Elements(ch.completed) THEN ch.completed
                   ELSE Append(ch.completed, id)]

\* Unlock attempts per session.
MaxUnlockSteps == 6

\* The achievements, truth indexes and challenges of the attempts.
UnlockAchievements == {"FirstTruth", "TenTruths", "FirstGenerator"}

UnlockTruths == {5, 232, 241}

UnlockChallenges == {"Silence", "Austerity"}

\* The codex of a session: empty, one truth short of the Tower & Sanctum
\* category, and with that category complete.
UnlockCodexes ==
    {[discovered |-> {}, completed_categories |-> <<>>, notification_queue |-> <<>>],
     [discovered |-> 232..240, completed_categories |-> <<>>,
      notification_queue |-> <<>>],
     [discovered |-> 232..241, completed_categories |-> <<"TowerAndSanctum">>,
      notification_queue |-> <<>>]}

InitUnlock ==
    /\ \E c \in UnlockCodexes :
          WorldIs([DefaultWorld EXCEPT
                      !.achievements = [unlocked |-> <<>>,
                                        notification_queue |-> <<>>],
                      !.challenges = [active |-> NoChallenge, completed |-> <<>>],
                      !.codex = c])
    /\ gs = "Playing"
    /\ next_state = "none"
    /\ time = 0
    /\ frame = NoInput
    /\ pending = {}
    /\ changed = [recalculate_synergies |-> FALSE, rebuild_item_list |-> FALSE]
    /\ panel = NoPanel
    /\ truth_unread = [old |-> 0, new |-> 0]
    /\ last_wisdom = 0
    /\ disk = NoSave
    /\ now = StartClock
    /\ offline_report = NoGains
    /\ app = "running"
    /\ launches = 1
    /\ last_truths = 0
    /\ siphon_last = 0
    /\ activations = 0
    /\ begun_at = 0
    /\ loop = NoLoop

\* One more attempt, recorded in frame.
UnlockStep(kind, arg) ==
    /\ time < MaxUnlockSteps
    /\ time' = time + 1
    /\ frame' = [mouse |-> Click(kind, arg), key |-> "None"]
    /\ UNCHANGED <<gs, next_state, pending, changed, panel, truth_unread,
                   last_wisdom, envVars, wisdom, progress, acolytes, generators,
                   synergies, tracker, equipped, transcendence, school, shadows,
                   resources, ponder, moments>>

\* check_achievements finds the condition of achievement id met
AchievementStep ==
    \E id \in UnlockAchievements :
        /\ UnlockStep("unlock", id)
        /\ achievements' = unlock(achievements, id)
        /\ UNCHANGED <<codex, challenges>>

\* track_truth_discovery reads a TruthGenerated message with index i
DiscoverStep ==
    \E i \in UnlockTruths :
        /\ UnlockStep("discover", i)
        /\ codex' = discover(codex, i)
        /\ UNCHANGED <<achievements, challenges>>

\* The active challenge id reaches its goal
CompleteStep ==
    \E id \in UnlockChallenges :
        /\ UnlockStep("complete", id)
        /\ challenges' = complete(challenges, id)
        /\ UNCHANGED <<achievements, codex>>

NextUnlock == AchievementStep \/ DiscoverStep \/ CompleteStep

SpecUnlock == InitUnlock /\ [][NextUnlock]_vars

-----------------------------------------------------------------------------
(* C13 *)

\* List q holds no element twice.
NoRepeat(q) == Cardinality(Elements(q)) = Len(q)

\* C13: unlocks are idempotent.  Unlocking an achievement, discovering a
\* truth (with the category completion it may bring) or completing a
\* challenge a second time changes nothing, f(f(x, id), id) = f(x, id); no
\* unlock list holds an id twice; and the bonus multiplier after the repeated
\* unlock is the one after the first.
C13_Idempotent ==
    /\ NoRepeat(achievements.unlocked)
    /\ NoRepeat(codex.completed_categories)
    /\ NoRepeat(challenges.completed)
    /\ \A id \in UnlockAchievements :
          LET once == unlock(achievements, id)
          IN /\ unlock(once, id) = once
             /\ ListWisdomMultiplier(unlock(once, id)) = ListWisdomMultiplier(once)
    /\ \A i \in UnlockTruths :
          LET once == discover(codex, i)
          IN /\ discover(once, i) = once
             /\ CodexWisdomMultiplier(discover(once, i)) = CodexWisdomMultiplier(once)
    /\ \A id \in UnlockChallenges :
          LET once == complete(challenges, id)
          IN complete(once, id) = once

\* Six attempts that left one entry in each list: First Truth unlocked, the
\* last truth of Tower & Sanctum discovered and Silence completed, and three
\* attempts that repeated one of them.
C13_Witness ==
    /\ time = 6
    /\ achievements.unlocked = <<"FirstTruth">>
    /\ codex.discovered = 232..241
    /\ codex.notification_queue = <<"TowerAndSanctum">>
    /\ challenges.completed = <<"Silence">>

-----------------------------------------------------------------------------
(* C14 *)

\* The step is a run of check_truth_generation.
TruthStepTaken ==
    /\ time' = time + 1
    /\ wisdom' = TruthResolved
    /\ UNCHANGED resources

RECURSIVE ThresholdsPaid(_, _, _)
\* The sum of the n successive thresholds from max on, under scaling f.
ThresholdsPaid(max, f, n) ==
    IF n = 0 THEN 0 ELSE max + ThresholdsPaid(Mul(max, f), f, n - 1)

C14_Step ==
    TruthStepTaken =>
        LET n == wisdom'.truths_generated - wisdom.truths_generated
            f == ActiveScaling(challenges, school, tracker)
        IN /\ wisdom'.current < wisdom'.max_wisdom \/ n = TruthIterationCap
           /\ wisdom'.max_wisdom = ScaleTimes(wisdom.max_wisdom, f, n)
           /\ wisdom'.current = wisdom.current - ThresholdsPaid(wisdom.max_wisdom, f, n)

\* C14: after the truth-generation step of a tick wisdom.current is below
\* wisdom.max_wisdom, unless the iteration cap was reached: the transition
\* repeats within the step while the carried overflow reaches the new
\* threshold, each repetition counting one truth and rescaling max_wisdom.
C14_BelowThreshold == [][C14_Step]_vars

\* 24 wisdom against a threshold of 10 at scaling 1.1: two transitions (10 and
\* 11) in one step, 3 carried over against the new threshold 12.1.
C14_Witness ==
    /\ time = 1
    /\ wisdom.truths_generated = 2
    /\ wisdom.current = 3000
    /\ wisdom.max_wisdom = 12100
    /\ truth_unread.new = 2

-----------------------------------------------------------------------------
(* The truth-resolution loops, one iteration per step *)

\* Magnitudes beyond this are held where they are (the meter is an f32; its
\* range is not the model's).
Huge == 10 * 1000 * 1000

Clamp(x) == Max(0 - Huge, Min(Huge, x))

\* The locals at the entry of the while loop of calculate_offline_gains with
\* wisdom_acc = acc, max_wisdom = max and remaining = r.
OfflineEntry(acc, max, r) ==
    [pc |-> "offline", acc |-> acc, max |-> max, truths |-> 0, remaining |-> r]

\* One pass through the while loop of calculate_offline_gains, from the test
\* of remaining to the safety cap.
OfflinePass(l) ==
    IF l.remaining <= 0 THEN [l EXCEPT !.pc = "done"]
    ELSE LET needed == l.max - l.acc
             body == IF needed <= 0 \/ l.remaining < needed
                     THEN [l EXCEPT !.acc = l.acc + l.remaining, !.remaining = 0]
                     ELSE [l EXCEPT !.remaining = l.remaining - needed,
                                    !.acc = 0,
                                    !.truths = l.truths + 1,
                                    !.max = Mul(l.max, 110)]
         IN IF body.truths > OfflineTruthCap THEN [body EXCEPT !.pc = "done"]
            ELSE body

\* The meter at the entry of check_truth_generation.
LiveEntry(acc, max) ==
    [pc |-> "live", acc |-> acc, max |-> max, truths |-> 0, remaining |-> 0]

\* One pass through the loop of check_truth_generation under scaling f.
LivePass(l, f) ==
    IF l.acc >= l.max /\ l.truths < TruthIterationCap
    THEN [l EXCEPT !.acc = Clamp(l.acc - l.max),
                   !.max = Clamp(Mul(l.max, f)),
                   !.truths = l.truths + 1]
    ELSE [l EXCEPT !.pc = "done"]

\* Thresholds the loops are entered with (thousandths): negative, zero,
\* negligible, the initial 10.
LoopThresholds == {0 - 10000, 0, 1, 10000}

\* Accumulated wisdom at entry, and wisdom left to hand out offline.
LoopMeters == {0, 24000, Huge}

LoopRemainders == {0, 500, 2500000}

InitLoops ==
    /\ WorldIs(DefaultWorld)
    /\ \E acc \in LoopMeters, max \in LoopThresholds :
          \/ loop = LiveEntry(acc, max)
          \/ \E r \in LoopRemainders : acc < Huge /\ loop = OfflineEntry(acc, max, r)
    /\ gs = "Playing"
    /\ next_state = "none"
    /\ time = 0
    /\ frame = NoInput
    /\ pending = {}
    /\ changed = [recalculate_synergies |-> FALSE, rebuild_item_list |-> FALSE]
    /\ panel = NoPanel
    /\ truth_unread = [old |-> 0, new |-> 0]
    /\ last_wisdom = 0
    /\ disk = NoSave
    /\ now = StartClock
    /\ offline_report = NoGains
    /\ app = "running"
    /\ launches = 1
    /\ last_truths = 0
    /\ siphon_last = 0
    /\ activations = 0
    /\ begun_at = 0

\* The offline simulation goes once through its loop.
OfflineIteration ==
    /\ loop.pc = "offline"
    /\ loop' = OfflinePass(loop)
    /\ UNCHANGED <<frameVars, worldVars, disk, now, offline_report, app, launches,
                   last_truths, siphon_last, activations, begun_at>>

\* check_truth_generation goes once through its loop.
LiveIteration ==
    /\ loop.pc = "live"
    /\ loop' = LivePass(loop, ActiveScaling(challenges, school, tracker))
    /\ UNCHANGED <<frameVars, worldVars, disk, now, offline_report, app, launches,
                   last_truths, siphon_last, activations, begun_at>>

NextLoops == OfflineIteration \/ LiveIteration

\* A loop that has not ended goes on.
SpecLoops == InitLoops /\ [][NextLoops]_vars /\ WF_vars(NextLoops)

-----------------------------------------------------------------------------
(* C15 *)

C15_Ends == <>[](loop.pc = "done")

-----------------------------------------------------------------------------
(* C16 *)

\* The frame that ends had a successful transcend: the Transcend button is
\* spawned only with pending_insight > 0, which nothing changes while the
\* panel is open.
TranscendFrame == FrameEnds /\ gs = "TranscendenceOpen" /\ frame.mouse.kind = "transcend"

\* C16: the school selection is mandatory.  Every frame with a successful
\* transcend is followed by the SchoolSelection state, whatever key was
\* handled in that frame; SchoolSelection is left only for Playing, and only
\* by the frame in which a school was chosen (and the run-scope reset done).
C16_SchoolMandatory ==
    [][/\ TranscendFrame => gs' = "SchoolSelection"
       /\ (FrameEnds /\ gs = "SchoolSelection" /\ gs' # "SchoolSelection")
            => /\ gs' = "Playing"
               /\ frame.mouse.kind = "school"
               /\ school.active = frame.mouse.arg
               /\ acolytes = 0]_vars

-----------------------------------------------------------------------------
(* The TruthGenerated signal and two of its readers, frame by frame *)

\* track_achievement_stats: counts the messages it has not read into
\* lifetime_truths and run_truths, raises peak_afp, advances run_elapsed
\* (milliseconds)
track_achievement_stats ==
    /\ Run("track_achievement_stats")
    /\ LET truth_count == truth_unread.stats_old + truth_unread.stats_new
       IN achievements' =
             [achievements EXCEPT
                 !.lifetime_truths = @ + truth_count,
                 !.run_truths = @ + truth_count,
                 !.peak_afp = Max(@, progress.focus_points),
                 !.run_elapsed = @ + FrameMillis]
    /\ truth_unread' = [truth_unread EXCEPT !.stats_old = 0, !.stats_new = 0]
    /\ UNCHANGED <<next_state, changed, panel, last_wisdom, wisdom, progress,
                   acolytes, generators, synergies, tracker, equipped,
                   transcendence, school, shadows, challenges, resources, ponder,
                   moments, codex>>

\* Frames per signal session.
MaxSignalFrames == 3

\* Meter readings a signal session starts from: empty, and one click short
\* of the threshold.
SignalMeters == {0, 9500}

InitSignal ==
    /\ \E m \in SignalMeters :
          WorldIs([DefaultWorld EXCEPT !.wisdom = [@ EXCEPT !.current = m]])
    /\ gs = "Playing"
    /\ next_state = "none"
    /\ time = 0
    /\ frame = NoInput
    /\ pending = {}
    /\ changed = [recalculate_synergies |-> FALSE, rebuild_item_list |-> FALSE]
    /\ panel = NoPanel
    /\ truth_unread = [old |-> 0, new |-> 0, stats_old |-> 0, stats_new |-> 0]
    /\ last_wisdom = 0
    /\ disk = NoSave
    /\ now = StartClock
    /\ offline_report = NoGains
    /\ app = "running"
    /\ launches = 1
    /\ last_truths = 0
    /\ siphon_last = 0
    /\ activations = 0
    /\ begun_at = 0
    /\ loop = NoLoop

\* The systems of this session that run in state st with input f: the
\* writer and the two readers in Playing, the shop toggle on KeyB.
SignalScheduled(st, f) ==
    (IF f.key = "KeyB" THEN {"toggle_shop"} ELSE {})
    \cup (IF st = "Playing"
          THEN {"check_truth_generation", "award_points", "track_achievement_stats"}
               \cup (IF f.mouse.kind = "orb" THEN {"handle_click_ponder"} ELSE {})
          ELSE {})

\* A frame begins: every reader's buffers rotate (a message not read in the
\* frame it was written in or the next one is dropped), the pending state
\* transition is applied, input is sampled and the systems are scheduled.
SignalFrame ==
    /\ pending = {}
    /\ time < MaxSignalFrames
    /\ time' = time + 1
    /\ LET st == IF next_state = "none" THEN gs ELSE next_state
       IN /\ gs' = st
          /\ next_state' = "none"
          /\ panel' = IF st = gs THEN panel ELSE PanelOnEnter(st)
          /\ truth_unread' = [old |-> truth_unread.new, new |-> 0,
                              stats_old |-> truth_unread.stats_new, stats_new |-> 0]
          /\ \E m \in {NoClick} \cup (IF st = "Playing" THEN {Click("orb", "")} ELSE {}),
                k \in {"None", "KeyB"} :
                /\ frame' = [mouse |-> m, key |-> k]
                /\ pending' = SignalScheduled(st, frame')
    /\ UNCHANGED <<changed, last_wisdom, worldVars, envVars>>

NextSignal ==
    \/ SignalFrame
    \/ handle_click_ponder
    \/ check_truth_generation
    \/ award_points
    \/ track_achievement_stats
    \/ toggle_shop

SpecSignal == InitSignal /\ [][NextSignal]_vars

-----------------------------------------------------------------------------
(* C17 *)

\* Truths award_points has counted or has yet to read, and the same for
\* track_achievement_stats.
AwardDue == progress.total_truths + truth_unread.old + truth_unread.new

StatsDue == achievements.lifetime_truths + truth_unread.stats_old
                + truth_unread.stats_new

\* C17: the truth-generated signal is a broadcast.  Every event reaches
\* every subscriber exactly once: in every step, what each subscriber has
\* counted or still has to read grows by the truths generated in the step
\* and is never dropped; focus_points gets one award (10 + afp_bonus) per
\* truth counted, and lifetime_truths and run_truths move together.
C17_Broadcast ==
    [][LET generated == wisdom'.truths_generated - wisdom.truths_generated
       IN /\ AwardDue' - AwardDue = generated
          /\ StatsDue' - StatsDue = generated
          /\ progress'.focus_points - progress.focus_points
                = (10 + tracker.afp_bonus)
                    * (progress'.total_truths - progress.total_truths)
          /\ achievements'.run_truths - achievements.run_truths
                = achievements'.lifetime_truths - achievements.lifetime_truths]_vars

-----------------------------------------------------------------------------
(* C18 *)

\* The press of the step, in a shop session.
Pressed(kind) == time' = time + 1 /\ frame'.mouse.kind = kind

C18_Step ==
    /\ progress'.focus_points >= 0
    /\ transcendence'.insight >= 0
    /\ Pressed("buy") =>
          LET i == frame'.mouse.arg
          IN IF i \in tracker.purchased \/ progress.focus_points < ItemCost[i]
             THEN UNCHANGED worldVars
             ELSE /\ progress'.focus_points = progress.focus_points - ItemCost[i]
                  /\ tracker'.purchased = tracker.purchased \cup {i}
    /\ (time' = time + 1 /\ frame'.key = "KeyA") =>
          IF progress.focus_points < AcolyteNextCost(acolytes)
          THEN UNCHANGED worldVars
          ELSE /\ progress'.focus_points
                     = progress.focus_points - AcolyteNextCost(acolytes)
               /\ acolytes' = acolytes + 1
    /\ Pressed("enlightenment") =>
          LET e == frame'.mouse.arg
          IN IF e \in transcendence.purchased_enlightenments
                \/ transcendence.insight < EnlightenmentCost[e]
             THEN UNCHANGED worldVars
             ELSE /\ transcendence'.insight
                        = transcendence.insight - EnlightenmentCost[e]
                  /\ transcendence'.purchased_enlightenments
                        = transcendence.purchased_enlightenments \cup {e}

\* C18: an invalid purchase changes no state.  A press on a shop item, a
\* summoning or a press on an enlightenment with an insufficient balance, or
\* on a one-time item or enlightenment already owned, leaves every resource
\* as it was; focus_points and insight never go below zero; an owned item
\* is neither charged nor recorded again.
C18_InvalidRejected == [][C18_Step]_vars

\* The Arcane Biscuit (20) bought out of 45 focus points and pressed again
\* with 25 left: owned, not charged a second time.
C18_Witness ==
    /\ time = 2
    /\ frame.mouse = Click("buy", "ArcaneBiscuit")
    /\ tracker.purchased = {"ArcaneBiscuit"}
    /\ progress.focus_points = 25

-----------------------------------------------------------------------------
(* C19 *)

C19_Step ==
    Pressed("buy_generator") =>
        LET g == frame'.mouse.arg
            cost == next_cost_discounted(g, generators[g],
                                         generator_cost_discount(transcendence))
            gate == serenity_cost(g)
        IN IF progress.focus_points >= cost /\ resources.serenity >= gate
           THEN /\ progress'.focus_points = progress.focus_points - cost
                /\ resources'.serenity = resources.serenity - gate
                /\ generators' = [generators EXCEPT ![g] = @ + 1]
           ELSE /\ progress'.focus_points = progress.focus_points
                /\ resources'.serenity = resources.serenity
                /\ generators' = generators

\* C19: a generator purchase is atomic.  A press on the Buy button of a tier
\* succeeds only with focus_points >= cost and serenity >= the gate of the
\* tier; then focus_points falls by the cost, serenity by the gate and the
\* owned count of the tier rises by one; otherwise none of the three changes.
C19_Atomic == [][C19_Step]_vars

\* A Dream Loom bought with 6,000,000 focus points and 150 serenity, and the
\* button pressed again: one loom, 1,000,000 focus points and 50 serenity
\* left, the second press refused.
C19_Witness ==
    /\ time = 2
    /\ frame.mouse = Click("buy_generator", "DreamLoom")
    /\ generators["DreamLoom"] = 1
    /\ progress.focus_points = 1000000
    /\ resources.serenity = 50000

-----------------------------------------------------------------------------
(* C20 *)

RECURSIVE Power(_, _)
Power(b, n) == IF n = 0 THEN 1 ELSE b * Power(b, n - 1)

\* c = max(1, ceil(base * 1.15^owned * (1 - discount))), with 1.15 = 23 / 20
\* and the discount in hundredths: c is the least integer from 1 upwards
\* with c * 20^owned * 100 >= base * 23^owned * (100 - discount).
IsNextCost(c, base, owned, discount) ==
    LET num == base * (100 - discount) * Power(23, owned)
        den == 100 * Power(20, owned)
    IN /\ c >= 1
       /\ c * den >= num
       /\ c = 1 \/ (c - 1) * den < num

C20_Step ==
    (/\ Pressed("buy_generator")
     /\ generators'[frame'.mouse.arg] = generators[frame'.mouse.arg] + 1) =>
        LET g == frame'.mouse.arg
            owned == generators[g]
            discount == generator_cost_discount(transcendence)
            paid == progress.focus_points - progress'.focus_points
        IN /\ IsNextCost(paid, base_cost[g], owned, discount)
           /\ (base_cost[g] = 50 /\ discount = 0 /\ owned = 0) => paid = 50
           /\ (base_cost[g] = 50 /\ discount = 0 /\ owned = 1) => paid = 58

\* C20: the cost of the next unit of a generator tier is
\* max(1, ceil(base_cost * 1.15^owned * (1 - discount))): every unit bought
\* is paid at that price, and for base_cost 50 without discount the price is
\* exactly 50 at owned = 0 and exactly 58 at owned = 1.
C20_NextCost == [][C20_Step]_vars

\* Two candles bought out of 400 focus points without discount: 50 and 58
\* paid, 292 left.
C20_Witness ==
    /\ time = 2
    /\ frame.mouse = Click("buy_generator", "Candle")
    /\ generators["Candle"] = 2
    /\ "EfficientDesign" \notin transcendence.purchased_enlightenments
    /\ progress.focus_points = 292

-----------------------------------------------------------------------------
(* Generator counts and their cached multipliers (synergies.rs) *)

\* Units added in one session.
MaxSynergySteps == 3

\* Owned counts a session starts with: none, and one unit short of each
\* milestone.
SynergyCounts == {0, 4, 9, 24, 49}

\* Counts of the Dream Loom, the source of a skip link, at the start.
SynergyLooms == {0, 4}

SynergySession(candles, balls, looms) ==
    LET owned == [DefaultGenerators EXCEPT !["Candle"] = candles,
                                           !["CrystalBall"] = balls,
                                           !["DreamLoom"] = looms]
    IN [DefaultWorld EXCEPT !.generators = owned, !.synergies = SynergiesOf(owned)]

InitSynergy ==
    /\ \E candles \in SynergyCounts, balls \in SynergyCounts, looms \in SynergyLooms :
          WorldIs(SynergySession(candles, balls, looms))
    /\ gs = "Playing"
    /\ next_state = "none"
    /\ time = 0
    /\ frame = NoInput
    /\ pending = {}
    /\ changed = [recalculate_synergies |-> FALSE, rebuild_item_list |-> FALSE]
    /\ panel = NoPanel
    /\ truth_unread = [old |-> 0, new |-> 0]
    /\ last_wisdom = 0
    /\ disk = NoSave
    /\ now = StartClock
    /\ offline_report = NoGains
    /\ app = "running"
    /\ loop = NoLoop
    /\ launches = 1
    /\ last_truths = 0
    /\ siphon_last = 0
    /\ activations = 0
    /\ begun_at = 0

\* GeneratorState::add of one unit of tier g; the write marks the resource
\* as changed.
AddUnitStep ==
    \E g \in GeneratorType :
        /\ time < MaxSynergySteps
        /\ time' = time + 1
        /\ generators' = GeneratorAdd(generators, g)
        /\ changed' = [recalculate_synergies |-> TRUE, rebuild_item_list |-> TRUE]
        /\ UNCHANGED <<gs, next_state, frame, pending, panel, truth_unread,
                       last_wisdom, envVars, wisdom, progress, acolytes, synergies,
                       tracker, equipped, transcendence, school, achievements,
                       shadows, challenges, resources, ponder, moments, codex>>

\* recalculate_synergies
RecalculateStep ==
    /\ synergies' = IF changed.recalculate_synergies THEN SynergiesOf(generators)
                    ELSE synergies
    /\ changed' = [changed EXCEPT !.recalculate_synergies = FALSE]
    /\ UNCHANGED <<gs, next_state, time, frame, pending, panel, truth_unread,
                   last_wisdom, envVars, wisdom, progress, acolytes, generators,
                   tracker, equipped, transcendence, school, achievements, shadows,
                   challenges, resources, ponder, moments, codex>>

NextSynergy == AddUnitStep \/ RecalculateStep

SpecSynergy == InitSynergy /\ [][NextSynergy]_vars

-----------------------------------------------------------------------------
(* C21 *)

\* The multiplier of the highest breakpoint reached, 1.0 below the first.
HighestReached(owned) ==
    LET breakpoints == {<<5, 150>>, <<10, 200>>, <<25, 300>>, <<50, 500>>}
        reached == {b \in breakpoints : owned >= b[1]}
    IN IF reached = {} THEN 100
       ELSE (CHOOSE b \in reached : \A c \in reached : c[1] <= b[1])[2]

\* C21: the milestone multiplier of a tier is the multiplier of the highest
\* breakpoint reached among (5, 1.5), (10, 2.0), (25, 3.0), (50, 5.0), and
\* 1.0 below 5 units; no smaller owned count has a greater multiplier.
C21_Milestone ==
    ~changed.recalculate_synergies =>
        \A g \in GeneratorType :
            /\ synergies.milestone_mult[g] = HighestReached(generators[g])
            /\ \A n \in 0..generators[g] :
                  milestone_multiplier(n) <= synergies.milestone_mult[g]

\* Candles taken from 49 to 50 and crystal balls from 9 to 10, recomputed:
\* 5.0 and 2.0.
C21_Witness ==
    /\ ~changed.recalculate_synergies
    /\ time = 2
    /\ generators["Candle"] = 50
    /\ generators["CrystalBall"] = 10
    /\ synergies.milestone_mult["Candle"] = 500
    /\ synergies.milestone_mult["CrystalBall"] = 200

-----------------------------------------------------------------------------
(* C22 *)

\* The tier n places above g in GeneratorType::ALL (below for negative n);
\* its owned count, 0 where there is no such tier.
OwnedAt(g, n) ==
    LET i == GenIndex(g) + n
    IN IF i \in 1..Len(GeneratorALL) THEN generators[GeneratorALL[i]] ELSE 0

\* The source of the one-way link that points at g, "None" without one.
SkipSource(g) ==
    CASE g = "AncientTome" -> "Candle"
      [] g = "AstralMirror" -> "CrystalBall"
      [] g = "VoidGate" -> "LeyLineTap"
      [] g = "CosmicEye" -> "DreamLoom"
      [] OTHER -> "None"

\* C22: after a recompute, synergy_mult(target) is 1 plus 0.02 per unit of
\* each adjacent tier plus 0.01 per unit of the source of the one-way link
\* that points at the target (Candle -> Ancient Tome, Crystal Ball -> Astral
\* Mirror, Ley Line Tap -> Void Gate, Dream Loom -> Cosmic Eye), and nothing
\* in the reverse direction of those four links.
C22_SynergySum ==
    ~changed.recalculate_synergies =>
        \A g \in GeneratorType :
            synergies.synergy_mult[g] =
                100 + 2 * OwnedAt(g, 0 - 1) + 2 * OwnedAt(g, 1)
                    + (IF SkipSource(g) = "None" THEN 0
                       ELSE generators[SkipSource(g)])

\* 4 candles, 9 crystal balls and an Ancient Tome bought on top: the tome
\* gets 0.18 from the balls and 0.04 from the candles, the candles 0.18
\* from the balls and nothing from the tome.
C22_Witness ==
    /\ ~changed.recalculate_synergies
    /\ generators["Candle"] = 4
    /\ generators["CrystalBall"] = 9
    /\ generators["AncientTome"] = 1
    /\ generators["LeyLineTap"] = 0
    /\ synergies.synergy_mult["AncientTome"] = 122
    /\ synergies.synergy_mult["Candle"] = 118

-----------------------------------------------------------------------------
(* The Transcend button (transcendence.rs) *)

\* Presses explored in one session.
MaxInsightSteps == 2

\* Wisdom accumulated in the run, thousandths: every quarter of a thousand
\* up to 10,000 wisdom, and the last thousandth before 1,000, 4,000 and
\* 9,000.
InsightMeters ==
    {k * 250000 : k \in 0..40} \cup {n * n * 1000000 - 1 : n \in 1..3}

\* Insight held from earlier runs.
InsightBalances == {0, 2}

InsightSession(meter, insight) ==
    [DefaultWorld EXCEPT
        !.transcendence = [@ EXCEPT !.run_wisdom_accumulated = meter,
                                    !.insight = insight]]

InitInsight ==
    /\ \E meter \in InsightMeters, insight \in InsightBalances :
          WorldIs(InsightSession(meter, insight))
    /\ gs = "TranscendenceOpen"
    /\ next_state = "none"
    /\ time = 0
    /\ frame = NoInput
    /\ pending = {}
    /\ changed = [recalculate_synergies |-> FALSE, rebuild_item_list |-> FALSE]
    /\ panel = NoPanel
    /\ truth_unread = [old |-> 0, new |-> 0]
    /\ last_wisdom = 0
    /\ disk = NoSave
    /\ now = StartClock
    /\ offline_report = NoGains
    /\ app = "running"
    /\ loop = NoLoop
    /\ launches = 1
    /\ last_truths = 0
    /\ siphon_last = 0
    /\ activations = 0
    /\ begun_at = 0

\* handle_transcend_click on a Pressed interaction of the TranscendButton
TranscendStep ==
    /\ time < MaxInsightSteps
    /\ time' = time + 1
    /\ frame' = [mouse |-> Click("transcend", ""), key |-> "None"]
    /\ TranscendClick
    /\ UNCHANGED <<gs, pending, changed, panel, truth_unread, last_wisdom, envVars,
                   wisdom, progress, acolytes, generators, synergies, tracker,
                   equipped, school, achievements, shadows, challenges, resources,
                   ponder, moments, codex>>

NextInsight == TranscendStep

SpecInsight == InitInsight /\ [][NextInsight]_vars

-----------------------------------------------------------------------------
(* C23 *)

\* n is the largest integer with 1000 * n^2 <= meter (meter in thousandths
\* of a wisdom point).
IsFloorSqrt(n, meter) ==
    /\ n >= 0
    /\ 1000 * n * n * 1000 <= meter
    /\ meter < 1000 * (n + 1) * (n + 1) * 1000

C23_Step ==
    Pressed("transcend") =>
        /\ IsFloorSqrt(transcendence'.insight - transcendence.insight,
                       transcendence.run_wisdom_accumulated)
        /\ transcendence.run_wisdom_accumulated < 1000 * 1000
              => transcendence'.insight = transcendence.insight

\* C23: the insight a transcend grants, pending_insight(), is
\* floor(sqrt(run_wisdom_accumulated / 1000)): the largest integer n with
\* 1000 * n^2 <= run_wisdom_accumulated, and 0 below 1000.
C23_FloorSqrt == [][C23_Step]_vars

\* At least 4,000 and less than 9,000 wisdom accumulated with 2 insight
\* held: the press grants 2 and empties the meter.
C23_Witness ==
    /\ time = 1
    /\ frame.mouse.kind = "transcend"
    /\ transcendence.insight = 4
    /\ transcendence.total_transcendences = 1
    /\ transcendence.run_wisdom_accumulated = 0

-----------------------------------------------------------------------------
(* C24 *)

C24_Step ==
    (Pressed("transcend") /\ pending_insight(transcendence) = 0) =>
        /\ transcendence'.insight = transcendence.insight
        /\ transcendence'.total_transcendences = transcendence.total_transcendences
        /\ transcendence'.run_wisdom_accumulated
              = transcendence.run_wisdom_accumulated
        /\ gs' = gs
        /\ next_state' = next_state

\* C24: a transcend taken while pending_insight is 0 is a no-op: insight,
\* total_transcendences, run_wisdom_accumulated and the game state (current
\* and requested) are unchanged.
C24_NoOp == [][C24_Step]_vars

\* 999.999 wisdom accumulated, the button pressed: nothing granted, the
\* meter kept, no state change requested.
C24_Witness ==
    /\ time = 1
    /\ frame.mouse.kind = "transcend"
    /\ transcendence.run_wisdom_accumulated = 999999
    /\ transcendence.total_transcendences = 0
    /\ gs = "TranscendenceOpen"
    /\ next_state = "none"

-----------------------------------------------------------------------------
(* The challenge systems (challenges.rs), frame by frame *)

\* ChallengeId::required_duration, milliseconds; 0 is Option::None
required_duration ==
    [c \in ChallengeId |->
        CASE c = "Silence" -> 600 * 1000
          [] c = "Blindfold" -> 300 * 1000
          [] c = "Austerity" -> 900 * 1000
          [] c = "Solitude" -> 0]

\* A faulty update that goes on after a failure: the clock of a failed
\* challenge keeps running and the challenge completes when it runs out.
UpdateChallengesForgiving ==
    LET active == challenges.active
        id == active.id
        elapsed == active.elapsed + FrameMillis
        total_gens == SumOver(GeneratorType, generators)
        failed == \/ active.failed
                  \/ id = "Silence" /\ total_gens > 0
                  \/ id = "Blindfold" /\ frame.mouse.kind = "orb"
    IN IF ~is_active(challenges)
       THEN UNCHANGED challenges
       ELSE IF required_duration[id] # 0 /\ elapsed >= required_duration[id]
            THEN challenges' = [active |-> NoChallenge,
                                completed |-> challenges.completed \cup {id}]
            ELSE challenges' = [challenges EXCEPT !.active.elapsed = elapsed,
                                                  !.active.failed = failed]

\* The body of update_challenges.  A left click that is not on a UI button
\* is the frame's click on the orb.
UpdateChallenges ==
    LET active == challenges.active
        id == active.id
        elapsed == active.elapsed + FrameMillis
        total_gens == SumOver(GeneratorType, generators)
        failed == \/ id = "Silence" /\ total_gens > 0
                  \/ id = "Blindfold" /\ frame.mouse.kind = "orb"
    IN IF ~is_active(challenges) \/ active.failed
       THEN UNCHANGED challenges
       ELSE IF required_duration[id] # 0 /\ elapsed >= required_duration[id]
               /\ ~failed
            THEN challenges' = [active |-> NoChallenge,
                                completed |-> challenges.completed \cup {id}]
            ELSE challenges' = [challenges EXCEPT !.active.elapsed = elapsed,
                                                  !.active.failed = failed]

\* update_challenges
update_challenges ==
    /\ Run("update_challenges")
    /\ UpdateChallenges
    /\ UNCHANGED <<next_state, changed, panel, truth_unread, last_wisdom, wisdom,
                   progress, acolytes, generators, synergies, tracker, equipped,
                   transcendence, school, achievements, shadows, resources, ponder,
                   moments, codex>>

\* track_solitude_progress
track_solitude_progress ==
    /\ "track_solitude_progress" \in pending
    /\ pending' = pending \ {"track_solitude_progress"}
    /\ last_truths' = wisdom.truths_generated
    /\ LET active == challenges.active
           progress_now == active.progress
                              + (IF wisdom.truths_generated > last_truths
                                 THEN wisdom.truths_generated - last_truths ELSE 0)
       IN IF ~is_active(challenges) \/ active.id # "Solitude" \/ active.failed
          THEN UNCHANGED challenges
          ELSE IF acolytes > 0
               THEN challenges' = [challenges EXCEPT !.active.failed = TRUE]
               ELSE IF progress_now >= 5
                    THEN challenges' =
                            [active |-> NoChallenge,
                             completed |-> challenges.completed \cup {active.id}]
                    ELSE challenges' =
                            [challenges EXCEPT !.active.progress = progress_now]
    /\ UNCHANGED <<gs, time, frame, disk, now, offline_report, app, launches, loop,
                   siphon_last, activations, begun_at,
                   next_state, changed, panel, truth_unread, last_wisdom, wisdom,
                   progress, acolytes, generators, synergies, tracker, equipped,
                   transcendence, school, achievements, shadows, resources, ponder,
                   moments, codex>>

\* toggle_challenges (scheduled when KeyC was just pressed)
toggle_challenges ==
    /\ Run("toggle_challenges")
    /\ CASE gs = "Playing" /\ is_active(challenges) ->
                /\ challenges' = [challenges EXCEPT !.active = NoChallenge]
                /\ UNCHANGED next_state
         [] gs = "Playing" /\ ~is_active(challenges) ->
                /\ next_state' = "ChallengesOpen"
                /\ UNCHANGED challenges
         [] gs = "ChallengesOpen" ->
                /\ next_state' = "Playing"
                /\ UNCHANGED challenges
         [] OTHER -> UNCHANGED <<next_state, challenges>>
    /\ UNCHANGED <<changed, panel, truth_unread, last_wisdom, wisdom, progress,
                   acolytes, generators, synergies, tracker, equipped,
                   transcendence, school, achievements, shadows, resources, ponder,
                   moments, codex>>

\* A faulty begin that does not look at the challenge state.
ChallengeBeginUnchecked(id) ==
    /\ challenges' = [challenges EXCEPT
                         !.active = [id |-> id, elapsed |-> 0, failed |-> FALSE,
                                     progress |-> 0]]
    /\ next_state' = "Playing"

\* The body of handle_challenge_begin for a pressed ChallengeButton(id)
ChallengeBegin(id) ==
    IF id \in challenges.completed \/ is_active(challenges)
    THEN UNCHANGED <<challenges, next_state>>
    ELSE /\ challenges' = [challenges EXCEPT
                              !.active = [id |-> id, elapsed |-> 0,
                                          failed |-> FALSE, progress |-> 0]]
         /\ next_state' = "Playing"

\* handle_challenge_begin (scheduled when a Begin button was pressed)
handle_challenge_begin ==
    /\ "handle_challenge_begin" \in pending
    /\ pending' = pending \ {"handle_challenge_begin"}
    /\ ChallengeBegin(frame.mouse.arg)
    /\ begun_at' = IF challenges'.active = challenges.active
                   THEN begun_at ELSE wisdom.truths_generated
    /\ UNCHANGED <<gs, time, frame, disk, now, offline_report, app, launches, loop,
                   last_truths, siphon_last, activations>>
    /\ UNCHANGED <<changed, panel, truth_unread, last_wisdom, wisdom, progress,
                   acolytes, generators, synergies, tracker, equipped,
                   transcendence, school, achievements, shadows, resources, ponder,
                   moments, codex>>

\* Frames per challenge session.
MaxChallengeFrames == 3

\* The challenge a session starts in: none, a timed one just begun or two
\* frames short of its duration, Solitude at no or four truths.
ChallengeStarts ==
    {NoChallenge}
    \cup UNION {{[id |-> c, elapsed |-> e, failed |-> FALSE, progress |-> 0] :
                    e \in {0, required_duration[c] - 2 * FrameMillis}} :
                 c \in {"Silence", "Blindfold"}}
    \cup {[id |-> "Solitude", elapsed |-> 0, failed |-> FALSE, progress |-> p] :
            p \in {0, 4}}

\* Challenges completed before the session.
ChallengeRecords == {{}, {"Blindfold"}}

\* Candles owned at the start of the session.
ChallengeCandles == {0, 1}

\* A session one click short of a truth, with the price of one acolyte.  The
\* truths a Solitude challenge has counted are the truths of the session.
ChallengeSession(active, completed, candles) ==
    [DefaultWorld EXCEPT
        !.challenges = [active |-> active, completed |-> completed],
        !.generators = [@ EXCEPT !["Candle"] = candles],
        !.synergies = SynergiesOf([DefaultGenerators EXCEPT !["Candle"] = candles]),
        !.wisdom = [current |-> ScaleTimes(10000, 110, active.progress) - 500,
                    max_wisdom |-> ScaleTimes(10000, 110, active.progress),
                    truths_generated |-> active.progress],
        !.progress = [@ EXCEPT !.focus_points = 20,
                               !.total_truths = active.progress]]

InitChallenge ==
    /\ \E active \in ChallengeStarts, completed \in ChallengeRecords,
          candles \in ChallengeCandles :
            /\ active.id \notin completed
            /\ WorldIs(ChallengeSession(active, completed, candles))
    /\ gs = "Playing"
    /\ next_state = "none"
    /\ time = 0
    /\ frame = NoInput
    /\ pending = {}
    /\ changed = [recalculate_synergies |-> FALSE, rebuild_item_list |-> FALSE]
    /\ panel = NoPanel
    /\ truth_unread = [old |-> 0, new |-> 0]
    /\ last_wisdom = 0
    /\ disk = NoSave
    /\ now = StartClock
    /\ offline_report = NoGains
    /\ app = "running"
    /\ loop = NoLoop
    /\ launches = 1
    /\ last_truths = wisdom.truths_generated
    /\ siphon_last = 0
    /\ activations = 0
    /\ begun_at = 0

\* The systems of this session that run in state st with input f.
ChallengeScheduled(st, f) ==
    (IF f.key = "KeyC" THEN {"toggle_challenges"} ELSE {})
    \cup (IF st = "Playing"
          THEN {"update_challenges", "track_solitude_progress"}
               \cup (IF f.mouse.kind = "orb"
                     THEN {"handle_click_ponder", "check_truth_generation"} ELSE {})
               \cup (IF f.key = "KeyA" THEN {"summon_acolyte"} ELSE {})
          ELSE {})
    \cup (IF st = "ChallengesOpen" /\ f.mouse.kind = "begin"
          THEN {"handle_challenge_begin"} ELSE {})

\* A frame begins: the pending state transition is applied, input is sampled
\* and the systems are scheduled.
ChallengeFrame ==
    /\ pending = {}
    /\ time < MaxChallengeFrames
    /\ time' = time + 1
    /\ LET st == IF next_state = "none" THEN gs ELSE next_state
       IN /\ gs' = st
          /\ next_state' = "none"
          /\ truth_unread' = [old |-> truth_unread.new, new |-> 0]
          /\ \E m \in {NoClick}
                      \cup (IF st = "Playing" THEN {Click("orb", "")} ELSE {})
                      \cup (IF st = "ChallengesOpen"
                            THEN {Click("begin", c) : c \in ChallengeId} ELSE {}),
                k \in {"None", "KeyC"} \cup (IF st = "Playing" THEN {"KeyA"} ELSE {}) :
                /\ frame' = [mouse |-> m, key |-> k]
                /\ pending' = ChallengeScheduled(st, frame')
    /\ UNCHANGED <<changed, panel, last_wisdom, worldVars, envVars>>

NextChallenge ==
    \/ ChallengeFrame
    \/ update_challenges
    \/ track_solitude_progress
    \/ toggle_challenges
    \/ handle_challenge_begin
    \/ handle_click_ponder
    \/ check_truth_generation
    \/ summon_acolyte

SpecChallenge == InitChallenge /\ [][NextChallenge]_vars

-----------------------------------------------------------------------------
(* C25 *)

\* The step is a run of toggle_challenges in Playing on KeyC: the player
\* cancels.
Cancels ==
    /\ gs = "Playing"
    /\ frame.key = "KeyC"
    /\ "toggle_challenges" \in pending
    /\ "toggle_challenges" \notin pending'

C25_Step ==
    (is_active(challenges) /\ challenges.active.failed) =>
        /\ challenges'.completed = challenges.completed
        /\ \/ challenges'.active = challenges.active
           \/ challenges'.active = NoChallenge /\ Cancels

-----------------------------------------------------------------------------
(* C26 *)

\* The step is a run of handle_challenge_begin.
BeginRuns ==
    /\ "handle_challenge_begin" \in pending
    /\ "handle_challenge_begin" \notin pending'

\* The step completes the active challenge.
Completes ==
    /\ is_active(challenges)
    /\ ~is_active(challenges')
    /\ challenges.active.id \in challenges'.completed

\* C26: a challenge that is already in the completed set can be begun again
\* (a press on its Begin with no challenge active starts it), and completing
\* it again leaves the completed set and every challenge bonus multiplier
\* unchanged.
C26_Rerun ==
    [][/\ (BeginRuns /\ ~is_active(challenges)
              /\ frame.mouse.arg \in challenges.completed)
            => challenges'.active.id = frame.mouse.arg
       /\ (Completes /\ challenges.active.id \in challenges.completed)
            => /\ challenges'.completed = challenges.completed
               /\ ChallengePassiveMultiplier(challenges')
                     = ChallengePassiveMultiplier(challenges)
               /\ ChallengeClickMultiplier(challenges')
                     = ChallengeClickMultiplier(challenges)]_vars

-----------------------------------------------------------------------------
(* The focus boost (resources.rs), tick by tick *)

\* SecondaryResources::default: focus_max, thousandths
focus_max == 100 * 1000

\* focus_drain_rate and focus_regen_rate, thousandths per second
focus_drain_rate == 2 * 1000

focus_regen_rate == 100

\* The focus needed to switch the boost on, thousandths
FocusToStart == 10 * 1000

\* A faulty update that needs the starting balance to go on as well.
UpdateFocusWithFloor(key) ==
    LET on == \/ resources.focus_active /\ resources.focus >= FocusToStart
              \/ key = "KeyG" /\ ~resources.focus_active
                    /\ resources.focus >= FocusToStart
        drained == resources.focus - (focus_drain_rate * FrameMillis) \div 1000
    IN resources' =
          IF on
          THEN IF drained <= 0
               THEN [resources EXCEPT !.focus = 0, !.focus_active = FALSE]
               ELSE [resources EXCEPT !.focus = drained, !.focus_active = TRUE]
          ELSE [resources EXCEPT
                   !.focus = Min(@ + (focus_regen_rate * FrameMillis) \div 1000,
                                 focus_max),
                   !.focus_active = FALSE]

\* The body of update_focus in a tick of FrameMillis with key just pressed
UpdateFocus(key) ==
    LET on == \/ resources.focus_active
              \/ key = "KeyG" /\ ~resources.focus_active
                    /\ resources.focus >= FocusToStart
        drained == resources.focus - (focus_drain_rate * FrameMillis) \div 1000
    IN resources' =
          IF on
          THEN IF drained <= 0
               THEN [resources EXCEPT !.focus = 0, !.focus_active = FALSE]
               ELSE [resources EXCEPT !.focus = drained, !.focus_active = TRUE]
          ELSE [resources EXCEPT
                   !.focus = Min(@ + (focus_regen_rate * FrameMillis) \div 1000,
                                 focus_max)]

\* Focus at the start of a session, thousandths: empty, around the starting
\* balance, and just below the cap.
FocusLevels == {0, 9975, 10000, 10025, 99990}

InitFocus ==
    /\ \E level \in FocusLevels :
          WorldIs([DefaultWorld EXCEPT !.resources = [@ EXCEPT !.focus = level]])
    /\ gs = "Playing"
    /\ next_state = "none"
    /\ time = 0
    /\ frame = NoInput
    /\ pending = {}
    /\ changed = [recalculate_synergies |-> FALSE, rebuild_item_list |-> FALSE]
    /\ panel = NoPanel
    /\ truth_unread = [old |-> 0, new |-> 0]
    /\ last_wisdom = 0
    /\ disk = NoSave
    /\ now = StartClock
    /\ offline_report = NoGains
    /\ app = "running"
    /\ loop = NoLoop
    /\ launches = 1
    /\ last_truths = 0
    /\ siphon_last = 0
    /\ activations = 0
    /\ begun_at = 0

\* update_focus in one tick, with or without KeyG just pressed
FocusTick ==
    \E key \in {"None", "KeyG"} :
        /\ frame' = [mouse |-> NoClick, key |-> key]
        /\ UpdateFocus(key)
        /\ UNCHANGED <<gs, next_state, time, pending, changed, panel, truth_unread,
                       last_wisdom, envVars, wisdom, progress, acolytes, generators,
                       synergies, tracker, equipped, transcendence, school,
                       achievements, shadows, challenges, ponder, moments, codex>>

NextFocus == FocusTick

\* The system runs in every tick.
SpecFocus == InitFocus /\ [][NextFocus]_vars /\ WF_vars(FocusTick)

-----------------------------------------------------------------------------
(* C27 *)

\* What a tick drains from an active boost and adds to an inactive one.
DrainPerTick == (2 * 1000) \div 4

RegenPerTick == 100 \div 4

C27_Step ==
    /\ (~resources.focus_active /\ resources'.focus_active)
          => frame'.key = "KeyG" /\ resources.focus >= 10 * 1000
    /\ resources.focus_active =>
          IF resources.focus > DrainPerTick
          THEN /\ resources'.focus_active
               /\ resources'.focus = resources.focus - DrainPerTick
          ELSE /\ ~resources'.focus_active
               /\ resources'.focus = 0
    /\ (~resources.focus_active /\ ~resources'.focus_active)
          => /\ resources'.focus >= resources.focus
             /\ resources'.focus
                   = (IF resources.focus + RegenPerTick > 100 * 1000
                      THEN 100 * 1000 ELSE resources.focus + RegenPerTick)
    /\ resources'.focus >= 0
    /\ resources'.focus <= 100 * 1000

-----------------------------------------------------------------------------
(* C28 *)

\* The truths and the focus points calculate_offline_gains reports when its
\* loop has ended with the locals l.
OfflineCredit(l) == [truths_earned |-> l.truths, afp_earned |-> l.truths * 10]

-----------------------------------------------------------------------------
(* C29 *)

\* C29: when a launch reports offline gains, the report's elapsed seconds is
\* the real time since the save, not clamped to the 12-hour window, while
\* the wisdom, the truths and the focus points are those of the clamped
\* duration.
C29_ElapsedUnclamped ==
    [][(launches' = launches + 1 /\ offline_report'.some) =>
          LET raw_elapsed == now' - disk.timestamp
              clamped == calculate_offline_gains(
                            disk, disk.timestamp + Min(raw_elapsed, MAX_OFFLINE_SECS))
          IN /\ offline_report'.elapsed_secs = raw_elapsed
             /\ offline_report'.wisdom_gained = clamped.wisdom_gained
             /\ offline_report'.truths_earned = clamped.truths_earned
             /\ offline_report'.afp_earned = clamped.afp_earned]_vars


-----------------------------------------------------------------------------
(* Save files written before the later fields existed *)

\* The sessions whose files are read back: one candle owned, and every
\* later-added field away from its default (one shadow holding 5 wisdom,
\* Silence completed, 3 serenity, 2 curiosity, 20 focus).
OldSaveFeatures == {"acolytes", "meter", "stoicism"}

OldSaveSession(F) ==
    [LoadSession(F \cup {"candles"}) EXCEPT
        !.shadows = [count |-> 1, stored_wisdom |-> 5000],
        !.challenges = [@ EXCEPT !.completed = {"Silence"}],
        !.resources = [@ EXCEPT !.serenity = 3000, !.curiosity = 2000,
                                !.focus = 20000]]

\* The keys a file may lack: any of the #[serde(default)] ones, or, for a
\* file that cannot be parsed, one of the others as well.
FileGaps == SUBSET OptionalFields \cup {OptionalFields \cup {"achievement_run_truths"}}

\* The JSON object of the snapshot save without the keys in gap.
FileWithout(save, gap) == [k \in DOMAIN save \ gap |-> save[k]]

\* The application has exited and left a file that lacks some keys.
InitOldSave ==
    /\ \E F \in SUBSET OldSaveFeatures : WorldIs(OldSaveSession(F))
    /\ gs = "Playing"
    /\ next_state = "none"
    /\ time = 0
    /\ frame = NoInput
    /\ pending = {}
    /\ changed = [recalculate_synergies |-> TRUE, rebuild_item_list |-> TRUE]
    /\ panel = NoPanel
    /\ truth_unread = [old |-> 0, new |-> 0]
    /\ last_wisdom = 0
    /\ \E gap \in FileGaps : disk = FileWithout(capture(World, StartClock), gap)
    /\ now = StartClock
    /\ offline_report = NoGains
    /\ app = "exited"
    /\ launches = 1
    /\ last_truths = 0
    /\ siphon_last = 0
    /\ activations = 0
    /\ begun_at = 0
    /\ loop = NoLoop

SpecOldSave == InitOldSave /\ [][NextLoad]_vars

-----------------------------------------------------------------------------
(* C30 *)

\* What a load must restore for the key k of the file on disk.
Restored(k) == IF k \in DOMAIN disk THEN disk[k] ELSE FieldDefault(k)

\* A launch that finds a file holding every key without #[serde(default)]
\* restores the six later fields from the file or to their defaults, and the
\* rest of the session from the file.
C30_Step ==
    (/\ app = "exited"
     /\ app' = "running"
     /\ (SaveFields \ OptionalFields) \subseteq DOMAIN disk
     /\ disk.version # 0)
        => /\ shadows'.count = Restored("shadow_count")
           /\ shadows'.stored_wisdom = Restored("shadow_stored_wisdom")
           /\ challenges'.completed = Restored("completed_challenges")
           /\ resources'.serenity = Restored("serenity")
           /\ resources'.curiosity = Restored("curiosity")
           /\ resources'.focus = Restored("focus")
           /\ generators' = disk.generators_owned
           /\ acolytes' = disk.acolyte_count
           /\ equipped' = disk.equipped_orb
           /\ school'.active = disk.school
           /\ transcendence'.insight = disk.insight
           /\ transcendence'.total_transcendences = disk.total_transcendences
           /\ achievements'.unlocked = disk.unlocked_achievements
           /\ wisdom'.truths_generated >= disk.truths_generated

\* C30: loading a file that lacks any of shadow_count, shadow_stored_wisdom,
\* completed_challenges, serenity, curiosity and focus (and holds every other
\* key) succeeds -- each missing one is restored as zero or the empty set,
\* each present one to its saved value, and the rest of the session (the
\* generators, acolytes, orb, school, insight, achievements and truths) comes
\* from the file rather than from a fresh start.
C30_OptionalFields == [][C30_Step]_vars

\* A file without serenity and completed_challenges has been loaded: both
\* are at their defaults, the focus, curiosity and shadow are as saved and
\* the candle is owned.
C30_Witness ==
    /\ app = "running"
    /\ launches = 2
    /\ DOMAIN disk = SaveFields \ {"serenity", "completed_challenges"}
    /\ resources.serenity = 0
    /\ challenges.completed = {}
    /\ resources.focus = 20000
    /\ resources.curiosity = 2000
    /\ shadows = [count |-> 1, stored_wisdom |-> 5000]
    /\ generators["Candle"] = 1

-----------------------------------------------------------------------------
(* Focus points per truth *)

\* SchoolState::afp_bonus_per_truth
afp_bonus_per_truth(sc) == IF sc.active = "Empiricism" THEN 3 ELSE 0

\* ChallengeState::afp_multiplier, hundredths
afp_multiplier(ch) == IF "Solitude" \in ch.completed THEN 105 ELSE 100

\* The sessions a truth is awarded in: any school (a school is chosen after
\* a transcendence), Solitude completed or not, the Arcane Amplifier bought
\* or not; the meter is one click short of its threshold.
AwardSession(s, done, items) ==
    [DefaultWorld EXCEPT
        !.wisdom = [@ EXCEPT !.current = 9500],
        !.school = [@ EXCEPT !.active = s],
        !.transcendence = [@ EXCEPT !.total_transcendences =
                              IF s = "None" THEN 0 ELSE 1],
        !.challenges = [@ EXCEPT !.completed = done],
        !.tracker = recalculate(items, "Crystal")]

InitAward ==
    /\ \E s \in SchoolOfThought, done \in {{}, {"Solitude"}},
          items \in {{}, {"ArcaneAmplifier"}} :
          WorldIs(AwardSession(s, done, items))
    /\ gs = "Playing"
    /\ next_state = "none"
    /\ time = 0
    /\ frame = NoInput
    /\ pending = {}
    /\ changed = [recalculate_synergies |-> FALSE, rebuild_item_list |-> FALSE]
    /\ panel = NoPanel
    /\ truth_unread = [old |-> 0, new |-> 0, stats_old |-> 0, stats_new |-> 0]
    /\ last_wisdom = 0
    /\ disk = NoSave
    /\ now = StartClock
    /\ offline_report = NoGains
    /\ app = "running"
    /\ launches = 1
    /\ last_truths = 0
    /\ siphon_last = 0
    /\ activations = 0
    /\ begun_at = 0
    /\ loop = NoLoop

SpecAward == InitAward /\ [][NextSignal]_vars

-----------------------------------------------------------------------------
(* C31 *)

\* The focus points of one truth before the challenge multiplier.
AwardBase == 10 + tracker.afp_bonus + afp_bonus_per_truth(school)

\* C31: each generated truth awards 10 + afp_bonus + the school's per-truth
\* bonus, scaled by the AFP multiplier of completed challenges -- whenever
\* award_points counts n truths, the focus points grow by n times that
\* amount (to within the rounding of the scaled value to whole points).
C31_AwardPerTruth ==
    [][progress'.total_truths > progress.total_truths
          => LET n == progress'.total_truths - progress.total_truths
                 d == progress'.focus_points - progress.focus_points
                 want == n * AwardBase * afp_multiplier(challenges)
             IN /\ 100 * d > want - 100 * n
                /\ 100 * d < want + 100 * n]_vars

-----------------------------------------------------------------------------
(* shadow_thoughts.rs: the siphon, frame by frame *)

\* ShadowState::drain_fraction, hundredths: (count * 0.10).min(0.95)
drain_fraction(sh) == Min(sh.count * 10, 95)

\* siphon_wisdom: redirects the drained share of what the meter gained since
\* the system's last run into the shadows' store
siphon_wisdom ==
    /\ "siphon_wisdom" \in pending
    /\ pending' = pending \ {"siphon_wisdom"}
    /\ LET gained == wisdom.current - siphon_last
           drain == Mul(gained, drain_fraction(shadows))
       IN IF shadows.count = 0 \/ gained <= 0
          THEN /\ siphon_last' = wisdom.current
               /\ UNCHANGED <<wisdom, shadows>>
          ELSE /\ wisdom' = [wisdom EXCEPT !.current = @ - drain]
               /\ shadows' = [shadows EXCEPT !.stored_wisdom = @ + drain]
               /\ siphon_last' = wisdom.current - drain
    /\ UNCHANGED <<gs, time, frame, disk, now, offline_report, app, launches, loop,
                   last_truths, activations, begun_at, next_state, changed, panel,
                   truth_unread,
                   last_wisdom, progress, acolytes, generators, synergies, tracker,
                   equipped, transcendence, school, achievements, challenges,
                   resources, ponder, moments, codex>>

\* Frames per siphon session.
MaxSiphonFrames == 3

\* The sessions the siphon runs in: up to two shadows attached, the meter
\* empty, half full or one click short of its threshold.
SiphonMeters == {0, 5000, 9500}

SiphonShadows == 0..2

InitSiphon ==
    /\ \E m \in SiphonMeters, n \in SiphonShadows :
          WorldIs([DefaultWorld EXCEPT !.wisdom = [@ EXCEPT !.current = m],
                                       !.shadows = [@ EXCEPT !.count = n]])
    /\ gs = "Playing"
    /\ next_state = "none"
    /\ time = 0
    /\ frame = NoInput
    /\ pending = {}
    /\ changed = [recalculate_synergies |-> FALSE, rebuild_item_list |-> FALSE]
    /\ panel = NoPanel
    /\ truth_unread = [old |-> 0, new |-> 0]
    /\ last_wisdom = 0
    /\ disk = NoSave
    /\ now = StartClock
    /\ offline_report = NoGains
    /\ app = "running"
    /\ launches = 1
    /\ last_truths = 0
    /\ siphon_last = 0
    /\ activations = 0
    /\ begun_at = 0
    /\ loop = NoLoop

\* A frame begins in Playing: the message buffers rotate, the mouse is
\* sampled and the systems are scheduled, in no fixed order.
SiphonFrame ==
    /\ pending = {}
    /\ time < MaxSiphonFrames
    /\ time' = time + 1
    /\ truth_unread' = [old |-> truth_unread.new, new |-> 0]
    /\ \E m \in {NoClick, Click("orb", "")} :
          /\ frame' = [mouse |-> m, key |-> "None"]
          /\ pending' = {"check_truth_generation", "accumulate_run_wisdom",
                         "siphon_wisdom"}
                        \cup (IF m.kind = "orb" THEN {"handle_click_ponder"} ELSE {})
    /\ UNCHANGED <<gs, next_state, panel, changed, last_wisdom, worldVars, envVars>>

NextSiphon ==
    \/ SiphonFrame
    \/ handle_click_ponder
    \/ check_truth_generation
    \/ accumulate_run_wisdom
    \/ siphon_wisdom

SpecSiphon == InitSiphon /\ [][NextSiphon]_vars

-----------------------------------------------------------------------------
(* C32 *)

\* C32: run_wisdom_accumulated increases only where a truth was generated --
\* a step that raises it is taken in a tick that holds a TruthGenerated
\* message, written in this tick or (for a transition resolved after
\* accumulate_run_wisdom had run) in the tick before; a drop of
\* wisdom.current from any other cause credits nothing.
C32_OnlyTruths ==
    [][transcendence'.run_wisdom_accumulated > transcendence.run_wisdom_accumulated
          => truth_unread.old + truth_unread.new > 0]_vars

-----------------------------------------------------------------------------
(* Prestige and the save file *)

\* Frames per prestige session.
MaxPrestigeFrames == 3

\* The run a prestige ends, PlayedTruths truths in: 4,000 or 9,000 wisdom
\* accumulated (2 or 3 insight pending) or none, with or without four
\* candles, an acolyte and the Arcane Biscuit.
PrestigeMeters == {0, 4000000, 9000000}

PrestigeSession(meter, candles, servants, items) ==
    [DefaultWorld EXCEPT
        !.wisdom = [current |-> 0,
                    max_wisdom |-> ScaleTimes(10000, 110, PlayedTruths),
                    truths_generated |-> PlayedTruths],
        !.transcendence = [@ EXCEPT !.run_wisdom_accumulated = meter],
        !.generators = [@ EXCEPT !["Candle"] = candles],
        !.synergies = SynergiesOf([DefaultGenerators EXCEPT !["Candle"] = candles]),
        !.acolytes = servants,
        !.tracker = recalculate(items, "Crystal"),
        !.progress = [@ EXCEPT !.focus_points = 88]]

InitPrestige ==
    /\ \E meter \in PrestigeMeters, candles \in {0, 4}, servants \in {0, 1},
          items \in {{}, {"ArcaneBiscuit"}} :
          WorldIs(PrestigeSession(meter, candles, servants, items))
    /\ gs = "TranscendenceOpen"
    /\ next_state = "none"
    /\ time = 0
    /\ frame = NoInput
    /\ pending = {}
    /\ changed = [recalculate_synergies |-> FALSE, rebuild_item_list |-> FALSE]
    /\ panel = NoPanel
    /\ truth_unread = [old |-> 0, new |-> 0]
    /\ last_wisdom = 0
    /\ disk = NoSave
    /\ now = StartClock
    /\ offline_report = NoGains
    /\ app = "running"
    /\ launches = 1
    /\ last_truths = 0
    /\ siphon_last = 0
    /\ activations = 0
    /\ begun_at = 0
    /\ loop = NoLoop

\* A frame begins: the pending state transition is applied and the buttons
\* of the state's panel are sampled.  The Transcend button exists only while
\* insight is pending, the school cards only in SchoolSelection.
PrestigeFrame ==
    /\ app = "running"
    /\ pending = {}
    /\ time < MaxPrestigeFrames
    /\ time' = time + 1
    /\ LET st == IF next_state = "none" THEN gs ELSE next_state
           buttons ==
             CASE st = "TranscendenceOpen" /\ pending_insight(transcendence) > 0 ->
                      {Click("transcend", "")}
               [] st = "SchoolSelection" ->
                      {Click("school", s) : s \in SchoolCHOICES}
               [] OTHER -> {}
       IN /\ gs' = st
          /\ next_state' = "none"
          /\ \E m \in {NoClick} \cup buttons :
                /\ frame' = [mouse |-> m, key |-> "None"]
                /\ pending' = CASE m.kind = "transcend" -> {"handle_transcend_click"}
                                [] m.kind = "school" -> {"handle_school_choice"}
                                [] OTHER -> {}
    /\ UNCHANGED <<panel, truth_unread, changed, last_wisdom, worldVars, envVars>>

NextPrestige ==
    \/ PrestigeFrame
    \/ handle_transcend_click
    \/ handle_school_choice
    \/ save_on_exit
    \/ Launch

SpecPrestige == InitPrestige /\ [][NextPrestige]_vars

-----------------------------------------------------------------------------
(* C33 *)

\* C33: prestige is atomic with respect to persistence -- what a launch
\* restores from the snapshot left by the exit is either a state before the
\* transcendence (none counted yet in these sessions) or the reset state
\* after the school choice (a school active, no generators, no acolytes, no
\* shop purchases); never the insight banked with the run not reset.
C33_PrestigeAtomic ==
    [][(app = "exited" /\ app' = "running")
          => \/ transcendence'.total_transcendences = 0
             \/ /\ school'.active # "None"
                /\ generators' = DefaultGenerators
                /\ acolytes' = 0
                /\ tracker'.purchased = {}]_vars

-----------------------------------------------------------------------------
(* C34 *)

\* C34: after load_game has applied offline gains the live meter is
\* consistent with the simulation -- (below the 1000-truth cap) the meter
\* reads less than its threshold, and truths_generated, total_truths,
\* lifetime_truths and run_truths have grown over the saved values by exactly
\* truths_earned and focus_points by exactly afp_earned.
C34_MeterConsistent ==
    [][(/\ app = "exited"
        /\ app' = "running"
        /\ offline_report'.some
        /\ offline_report'.truths_earned <= OfflineTruthCap)
          => /\ wisdom'.current < wisdom'.max_wisdom
             /\ wisdom'.truths_generated
                   = disk.truths_generated + offline_report'.truths_earned
             /\ progress'.total_truths
                   = disk.total_truths + offline_report'.truths_earned
             /\ achievements'.lifetime_truths
                   = disk.lifetime_truths + offline_report'.truths_earned
             /\ achievements'.run_truths
                   = disk.achievement_run_truths + offline_report'.truths_earned
             /\ progress'.focus_points
                   = disk.focus_points + offline_report'.afp_earned]_vars

-----------------------------------------------------------------------------
(* Deep Focus: pondering.rs, achievements.rs *)

\* deep_focus_timer on activation: 10.0 s, in milliseconds
DeepFocusDuration == 10000

\* deep_focus_cooldown on activation: 60.0 s, in milliseconds
DeepFocusCooldown == 60000

\* A faulty handle_deep_focus that does not look at the cooldown.
HandleDeepFocusNoCooldown ==
    IF frame.key = "Space" /\ ~ponder.deep_focus_active
    THEN /\ ponder' = [ponder EXCEPT !.deep_focus_active = TRUE,
                                     !.deep_focus_timer = DeepFocusDuration,
                                     !.deep_focus_cooldown = DeepFocusCooldown]
         /\ activations' = activations + 1
    ELSE UNCHANGED <<ponder, activations>>

\* The body of handle_deep_focus
HandleDeepFocus ==
    IF /\ frame.key = "Space"
       /\ ponder.deep_focus_cooldown <= 0
       /\ ~ponder.deep_focus_active
    THEN /\ ponder' = [ponder EXCEPT !.deep_focus_active = TRUE,
                                     !.deep_focus_timer = DeepFocusDuration,
                                     !.deep_focus_cooldown = DeepFocusCooldown]
         /\ activations' = activations + 1
    ELSE UNCHANGED <<ponder, activations>>

handle_deep_focus ==
    /\ "handle_deep_focus" \in pending
    /\ pending' = pending \ {"handle_deep_focus"}
    /\ HandleDeepFocus
    /\ UNCHANGED <<gs, time, frame, disk, now, offline_report, app, launches, loop,
                   last_truths, siphon_last, begun_at, next_state, changed, panel,
                   truth_unread, last_wisdom, wisdom, progress, acolytes,
                   generators, synergies, tracker, equipped, transcendence, school,
                   achievements, shadows, challenges, resources, moments, codex>>

\* update_ponder_visuals: the Deep Focus timers tick down by the frame time
\* and the glow decays (3.0 per second) toward its base level, hundredths.
update_ponder_visuals ==
    /\ Run("update_ponder_visuals")
    /\ LET timer == ponder.deep_focus_timer - FrameMillis
           active == ponder.deep_focus_active /\ timer > 0
           acolyte_glow == 10 + 3 * Min(acolytes, 15)
           base_level == IF active THEN Max(acolyte_glow, 60) ELSE acolyte_glow
       IN ponder' =
             [deep_focus_active |-> active,
              deep_focus_timer |-> IF ~ponder.deep_focus_active
                                   THEN ponder.deep_focus_timer
                                   ELSE IF timer <= 0 THEN 0 ELSE timer,
              deep_focus_cooldown |->
                  IF ponder.deep_focus_cooldown > 0
                  THEN Max(ponder.deep_focus_cooldown - FrameMillis, 0)
                  ELSE ponder.deep_focus_cooldown,
              ponder_intensity |->
                  IF ponder.ponder_intensity > base_level
                  THEN Max(ponder.ponder_intensity - (3 * FrameMillis) \div 10,
                           base_level)
                  ELSE base_level]
    /\ UNCHANGED <<next_state, changed, panel, truth_unread, last_wisdom, wisdom,
                   progress, acolytes, generators, synergies, tracker, equipped,
                   transcendence, school, achievements, shadows, challenges,
                   resources, moments, codex>>

\* track_deep_focus_uses
track_deep_focus_uses ==
    /\ Run("track_deep_focus_uses")
    /\ achievements' =
          IF /\ frame.key = "Space"
             /\ ~ponder.deep_focus_active
             /\ ponder.deep_focus_cooldown <= 0
          THEN [achievements EXCEPT !.deep_focus_uses = @ + 1]
          ELSE achievements
    /\ UNCHANGED <<next_state, changed, panel, truth_unread, last_wisdom, wisdom,
                   progress, acolytes, generators, synergies, tracker, equipped,
                   transcendence, school, shadows, challenges, resources, ponder,
                   moments, codex>>

\* Presses of Space are sampled until this many activations or counted uses.
MaxDeepFocusUses == 2

InitDeepFocus ==
    /\ WorldIs(DefaultWorld)
    /\ gs = "Playing"
    /\ next_state = "none"
    /\ time = 0
    /\ frame = NoInput
    /\ pending = {}
    /\ changed = [recalculate_synergies |-> FALSE, rebuild_item_list |-> FALSE]
    /\ panel = NoPanel
    /\ truth_unread = [old |-> 0, new |-> 0]
    /\ last_wisdom = 0
    /\ disk = NoSave
    /\ now = StartClock
    /\ offline_report = NoGains
    /\ app = "running"
    /\ launches = 1
    /\ last_truths = 0
    /\ siphon_last = 0
    /\ activations = 0
    /\ begun_at = 0
    /\ loop = NoLoop

\* A frame begins in Playing: Space is just pressed or not, and the three
\* systems are scheduled, in no fixed order.
DeepFocusFrame ==
    /\ pending = {}
    /\ \E k \in {"None"} \cup
                (IF /\ activations < MaxDeepFocusUses
                    /\ achievements.deep_focus_uses < MaxDeepFocusUses
                 THEN {"Space"} ELSE {}) :
          frame' = [mouse |-> NoClick, key |-> k]
    /\ pending' = {"handle_deep_focus", "update_ponder_visuals",
                   "track_deep_focus_uses"}
    /\ UNCHANGED <<gs, next_state, time, panel, truth_unread, changed, last_wisdom,
                   worldVars, envVars>>

NextDeepFocus ==
    \/ DeepFocusFrame
    \/ handle_deep_focus
    \/ update_ponder_visuals
    \/ track_deep_focus_uses

SpecDeepFocus == InitDeepFocus /\ [][NextDeepFocus]_vars /\ WF_vars(NextDeepFocus)

-----------------------------------------------------------------------------
(* C35 *)

\* C35: deep_focus_uses grows by exactly 1 in every tick in which Deep Focus
\* is activated and by nothing in any other tick, whatever the order of
\* handle_deep_focus and track_deep_focus_uses -- so at the end of every
\* tick the counter equals the number of activations so far.
C35_UsesCounted ==
    pending = {} => achievements.deep_focus_uses = activations

-----------------------------------------------------------------------------
(* C39 *)

\* Deep Focus goes from inactive to active in this step.
Activates == ~ponder.deep_focus_active /\ ponder'.deep_focus_active

\* The timers tick in this step.
Ticks == "update_ponder_visuals" \in pending /\ "update_ponder_visuals" \notin pending'

\* An activation happens only off cooldown and sets the 10-second timer and
\* the 60-second cooldown; a tick takes the frame time off both (the cooldown
\* stops at zero, the boost ends when its timer runs out); nothing else
\* touches them.
C39_Step ==
    /\ Activates
          => /\ ponder.deep_focus_cooldown = 0
             /\ ponder'.deep_focus_timer = DeepFocusDuration
             /\ ponder'.deep_focus_cooldown = DeepFocusCooldown
    /\ Ticks
          => /\ ponder'.deep_focus_cooldown
                   = Max(ponder.deep_focus_cooldown - FrameMillis, 0)
             /\ ponder.deep_focus_active
                   => /\ ponder'.deep_focus_timer
                            = ponder.deep_focus_timer - FrameMillis
                      /\ ponder'.deep_focus_active = (ponder'.deep_focus_timer > 0)
    /\ (~Activates /\ ~Ticks)
          => /\ ponder'.deep_focus_active = ponder.deep_focus_active
             /\ ponder'.deep_focus_timer = ponder.deep_focus_timer
             /\ ponder'.deep_focus_cooldown = ponder.deep_focus_cooldown

\* While the boost is active the cooldown is running and is exactly 50
\* seconds ahead of the timer; once 10 seconds of the cooldown have been
\* ticked off the boost is over.
C39_Timers ==
    /\ ponder.deep_focus_active
          => /\ ponder.deep_focus_cooldown > 0
             /\ ponder.deep_focus_timer > 0
             /\ ponder.deep_focus_cooldown - ponder.deep_focus_timer
                   = DeepFocusCooldown - DeepFocusDuration
    /\ ponder.deep_focus_cooldown <= DeepFocusCooldown - DeepFocusDuration
          => ~ponder.deep_focus_active

\* C39: Deep Focus is activated only while inactive and off cooldown;
\* activation sets a 10-second timer and a 60-second cooldown that tick down
\* together, so deep_focus_active implies deep_focus_cooldown > 0 in every
\* reachable state, the boost always ends (after 10 seconds of ticked time),
\* and a second activation has to wait until the 60 seconds of cooldown have
\* been ticked off.
C39_DeepFocus ==
    /\ []C39_Timers
    /\ [][C39_Step]_vars
    /\ (ponder.deep_focus_active ~> ~ponder.deep_focus_active)

\* Deep Focus has just been activated for the second time: the first boost
\* ran out and its cooldown was ticked down from 60 seconds to zero.
C39_Witness ==
    /\ activations = 2
    /\ ponder.deep_focus_active
    /\ ponder.deep_focus_timer = DeepFocusDuration
    /\ ponder.deep_focus_cooldown = DeepFocusCooldown

-----------------------------------------------------------------------------
(* Equip actions for any orb type *)

\* handle_equip_click on a Pressed interaction of an EquipButton(o), whatever
\* orb type the button carries
EquipActionStep ==
    \E o \in OrbType :
        /\ ShopStep([mouse |-> Click("equip", o), key |-> "None"])
        /\ HandleEquipClick(o)
        /\ UNCHANGED <<changed, wisdom, progress, acolytes, generators, synergies,
                       transcendence, school, achievements, shadows, challenges,
                       resources, ponder, moments, codex>>

NextEquip == BuyItemStep \/ EquipActionStep

SpecEquip == InitShop /\ [][NextEquip]_vars

-----------------------------------------------------------------------------
(* C36 *)

\* Orb type o is unlocked: it is in unlocked_orbs (the Crystal orb, or an orb
\* whose shop item was purchased).
Unlocked(o) ==
    \E k \in 1..Len(progress.unlocked_orbs) : progress.unlocked_orbs[k] = o

\* C36: the equip precondition is re-validated by the handler itself -- an
\* equip action for an orb type that is not unlocked (not in unlocked_orbs,
\* its shop item not purchased) leaves the equipped orb and the
\* PurchaseTracker unchanged.
C36_EquipValidated ==
    [][(Pressed("equip") /\ ~Unlocked(frame'.mouse.arg))
          => (equipped' = equipped /\ tracker' = tracker)]_vars

-----------------------------------------------------------------------------
(* C37 *)

\* track_solitude_progress runs in this step.
TrackRuns ==
    /\ "track_solitude_progress" \in pending
    /\ "track_solitude_progress" \notin pending'

\* Every run of track_solitude_progress on an active, unfailed Solitude
\* challenge leaves it failed with its progress as it was when an acolyte is
\* owned, completed when five truths have been generated since it began, and
\* otherwise with progress equal to the truths generated since it began; a
\* failed Solitude challenge keeps its progress and is never completed.
C37_Step ==
    LET a == challenges.active
        counted == wisdom.truths_generated - begun_at
    IN /\ (TrackRuns /\ a.id = "Solitude" /\ ~a.failed)
            => IF acolytes > 0
               THEN /\ challenges'.active = [a EXCEPT !.failed = TRUE]
                    /\ challenges'.completed = challenges.completed
               ELSE IF counted >= 5
                    THEN /\ challenges'.active = NoChallenge
                         /\ challenges'.completed
                               = challenges.completed \cup {"Solitude"}
                    ELSE /\ challenges'.active = [a EXCEPT !.progress = counted]
                         /\ challenges'.completed = challenges.completed
       /\ (a.id = "Solitude" /\ a.failed)
            => /\ challenges'.active \in {a, NoChallenge}
               /\ challenges'.completed = challenges.completed

\* C37: while a Solitude challenge is active and not failed its progress is
\* the number of truths generated since it began; it completes exactly when
\* that number reaches 5, and it is marked failed, with its progress frozen,
\* as soon as an acolyte is owned, also when one was owned when it began.
C37_SolitudeProgress == [][C37_Step]_vars

-----------------------------------------------------------------------------
(* Begin presses on the challenge panel *)

\* Presses per session.
MaxBeginSteps == 2

\* The challenge state a press finds: none active, or one of ChallengeStarts
\* running or failed.
BeginStarts == ChallengeStarts \cup {[a EXCEPT !.failed = TRUE] : a \in ChallengeStarts \ {NoChallenge}}

InitBegin ==
    /\ \E active \in BeginStarts, completed \in ChallengeRecords,
          candles \in ChallengeCandles :
            /\ active.id \notin completed
            /\ WorldIs(ChallengeSession(active, completed, candles))
    /\ gs = "ChallengesOpen"
    /\ next_state = "none"
    /\ time = 0
    /\ frame = NoInput
    /\ pending = {}
    /\ changed = [recalculate_synergies |-> FALSE, rebuild_item_list |-> FALSE]
    /\ panel = NoPanel
    /\ truth_unread = [old |-> 0, new |-> 0]
    /\ last_wisdom = 0
    /\ disk = NoSave
    /\ now = StartClock
    /\ offline_report = NoGains
    /\ app = "running"
    /\ loop = NoLoop
    /\ launches = 1
    /\ last_truths = wisdom.truths_generated
    /\ siphon_last = 0
    /\ activations = 0
    /\ begun_at = 0

\* handle_challenge_begin on a Pressed interaction of ChallengeButton(id);
\* the loop of the handler takes the presses one after the other.
BeginStep ==
    \E id \in ChallengeId :
        /\ time < MaxBeginSteps
        /\ time' = time + 1
        /\ frame' = [mouse |-> Click("begin", id), key |-> "None"]
        /\ ChallengeBegin(id)
        /\ begun_at' = IF challenges'.active = challenges.active
                       THEN begun_at ELSE wisdom.truths_generated
        /\ UNCHANGED <<gs, pending, changed, panel, truth_unread, last_wisdom, disk,
                       now, offline_report, app, launches, loop, last_truths,
                       siphon_last, activations, wisdom, progress, acolytes,
                       generators, synergies, tracker, equipped, transcendence,
                       school, achievements, shadows, resources, ponder, moments,
                       codex>>

NextBegin == BeginStep

SpecBegin == InitBegin /\ [][NextBegin]_vars

-----------------------------------------------------------------------------
(* C38 *)

\* A begin press while a challenge is active, failed or not, changes neither
\* the challenge state nor the pending transition; a press that begins a
\* challenge makes it the active one with elapsed 0, progress 0 and not
\* failed, leaves the completed set alone and asks for Playing.
C38_Step ==
    Pressed("begin")
       => IF is_active(challenges)
          THEN challenges' = challenges /\ next_state' = next_state
          ELSE challenges' # challenges
                  => /\ challenges'.active
                           = [id |-> frame'.mouse.arg, elapsed |-> 0,
                              failed |-> FALSE, progress |-> 0]
                     /\ challenges'.completed = challenges.completed
                     /\ next_state' = "Playing"

\* C38: at most one challenge is active at any time -- beginning a challenge
\* while another one is active, failed or not, changes nothing, and a
\* successful begin sets elapsed = 0, progress = 0 and failed = false and
\* returns the game to Playing.
C38_OneActive == [][C38_Step]_vars

\* Silence was begun by the first press; the second press, on Blindfold,
\* found it active and changed nothing.
C38_Witness ==
    /\ time = 2
    /\ frame.mouse = Click("begin", "Blindfold")
    /\ challenges.active = [id |-> "Silence", elapsed |-> 0, failed |-> FALSE,
                            progress |-> 0]
    /\ next_state = "Playing"

====
